---- MODULE Spec2Model ----
(***************************************************************************)
(* Model of the multimedia upload/search backend: FileService (upload,     *)
(* list, get, update, delete, view count, search with relevance ranking),  *)
(* the File schema's setters and pre-save hook, and CloudinaryService's    *)
(* upload and delete adapter.                                              *)
(*                                                                         *)
(* Text is modelled as sequences of one-character strings so that          *)
(* toLowerCase, trim, split, includes and the regular expressions of the   *)
(* source are computed, not assumed.                                       *)
(***************************************************************************)
EXTENDS Integers, Sequences, FiniteSets, TLC

VARIABLES
    files,       \* the File collection, in store (insertion) order
    users,       \* the User collection: id -> [totalFiles, storageUsed]
    objects,     \* the object storage: cloudinaryId -> resource type
    nextId,      \* next ObjectId / upload sequence number
    now,         \* the server clock (new Date()), in days
    response,    \* what the last service call returned or threw
    statsFailed, \* the counter updates that threw and were swallowed
    inflight,    \* requests running concurrently, each at one of its awaits
    accounts     \* the User collection's sign-in fields, by user id

vars == <<files, users, objects, nextId, now, response, statsFailed, inflight,
          accounts>>

----------------------------------------------------------------------------
(* Bounds of the model *)

MaxSearchUploads == 1   \* uploads accepted over a run of the search specification
MaxUploads == 2     \* uploads accepted over a run
MaxViews == 1       \* cap on viewCount
MaxConcurrentViews == 2  \* cap on viewCount while updates are in flight
MaxPage == 2        \* page numbers 1..MaxPage
MaxLimit == 2       \* page sizes 1..MaxLimit
MaxSize == 1        \* file sizes 0..MaxSize
MaxTicks == 2       \* clock readings 0, DayStep, .., MaxTicks * DayStep
DayStep == 45       \* days between two clock readings
MaxInFlight == 2    \* requests in flight at once

----------------------------------------------------------------------------
(* JavaScript strings *)

UpperChars ==
    <<"A","B","C","D","E","F","G","H","I","J","K","L","M",
      "N","O","P","Q","R","S","T","U","V","W","X","Y","Z">>
LowerChars ==
    <<"a","b","c","d","e","f","g","h","i","j","k","l","m",
      "n","o","p","q","r","s","t","u","v","w","x","y","z">>

Whitespace == {" ", "\t", "\n"}

\* The characters of the model's text
Chars ==
    {UpperChars[i] : i \in 1..Len(UpperChars)}
    \cup {LowerChars[i] : i \in 1..Len(LowerChars)}
    \cup Whitespace \cup {",", "-", ".", "/", "_", "4"}

LowerOf ==
    [c \in Chars |->
        IF \E i \in 1..Len(UpperChars) : UpperChars[i] = c
        THEN LowerChars[CHOOSE i \in 1..Len(UpperChars) : UpperChars[i] = c]
        ELSE c]

ToLowerChar(c) == LowerOf[c]

\* String.prototype.toLowerCase
toLowerCase(s) == [i \in 1..Len(s) |-> ToLowerChar(s[i])]

RECURSIVE TrimStart(_)
TrimStart(s) ==
    IF s # <<>> /\ Head(s) \in Whitespace THEN TrimStart(Tail(s)) ELSE s

RECURSIVE TrimEnd(_)
TrimEnd(s) ==
    IF s # <<>> /\ s[Len(s)] \in Whitespace
    THEN TrimEnd(SubSeq(s, 1, Len(s) - 1))
    ELSE s

\* Variant: nothing is trimmed
trimNothing(s) == s

\* String.prototype.trim
trim(s) == TrimEnd(TrimStart(s))

\* String.prototype.includes
includes(s, sub) ==
    LET str == s
        part == sub
    IN  \E i \in 0..(Len(str) - Len(part)) :
            SubSeq(str, i + 1, i + Len(part)) = part

\* String.prototype.startsWith
startsWith(s, prefix) ==
    Len(prefix) <= Len(s) /\ SubSeq(s, 1, Len(prefix)) = prefix

\* String.prototype.split with a regular expression [seps]+ : the pieces
\* between maximal runs of separator characters; a leading or trailing run
\* yields an empty piece, and the empty string yields one empty piece.
RECURSIVE SplitFrom(_, _, _, _, _)
SplitFrom(s, seps, cur, acc, inRun) ==
    IF s = <<>> THEN Append(acc, cur)
    ELSE IF Head(s) \in seps
         THEN IF inRun
              THEN SplitFrom(Tail(s), seps, <<>>, acc, TRUE)
              ELSE SplitFrom(Tail(s), seps, <<>>, Append(acc, cur), TRUE)
         ELSE SplitFrom(Tail(s), seps, Append(cur, Head(s)), acc, FALSE)

split(s, seps) == SplitFrom(s, seps, <<>>, <<>>, FALSE)

\* String.prototype.split(',')
RECURSIVE SplitCommaFrom(_, _, _)
SplitCommaFrom(s, cur, acc) ==
    IF s = <<>> THEN Append(acc, cur)
    ELSE IF Head(s) = ","
         THEN SplitCommaFrom(Tail(s), <<>>, Append(acc, cur))
         ELSE SplitCommaFrom(Tail(s), Append(cur, Head(s)), acc)

splitComma(s) == SplitCommaFrom(s, <<>>, <<>>)

\* [...new Set(array)] : first occurrences, in order
RECURSIVE Dedupe(_, _)
Dedupe(seq, acc) ==
    IF seq = <<>> THEN acc
    ELSE IF \E i \in 1..Len(acc) : acc[i] = Head(seq)
         THEN Dedupe(Tail(seq), acc)
         ELSE Dedupe(Tail(seq), Append(acc, Head(seq)))

\* Array.prototype.filter
RECURSIVE FilterLen(_, _)
FilterLen(seq, minLen) ==
    IF seq = <<>> THEN <<>>
    ELSE IF Len(Head(seq)) >= minLen
         THEN <<Head(seq)>> \o FilterLen(Tail(seq), minLen)
         ELSE FilterLen(Tail(seq), minLen)

Range(seq) == {seq[i] : i \in 1..Len(seq)}

----------------------------------------------------------------------------
(* Text that appears in the model *)

T_cat == <<"c","a","t">>
T_Cat == <<"C","a","t">>
T_myCat == <<"m","y"," ","c","a","t">>
T_aCat == <<"a"," ","c","a","t">>
T_catsPet == <<"C","a","t","s",","," ","p","e","t">>
T_catSp == <<"c","a","t"," ">>
T_my == <<"m","y">>
T_png == <<"p","n","g">>
T_blank == <<" ">>
T_true == <<"t","r","u","e">>
T_catPng == <<"c","a","t",".","p","n","g">>
T_myCatPng == <<"m","y","_","c","a","t",".","p","n","g">>
T_unnamed == <<"u","n","n","a","m","e","d">>
T_image == <<"i","m","a","g","e">>
T_video == <<"v","i","d","e","o">>
T_audio == <<"a","u","d","i","o">>
T_document == <<"d","o","c","u","m","e","n","t">>
T_other == <<"o","t","h","e","r">>
T_work == <<"w","o","r","k">>
T_personal == <<"p","e","r","s","o","n","a","l">>
T_education == <<"e","d","u","c","a","t","i","o","n">>
T_entertainment == <<"e","n","t","e","r","t","a","i","n","m","e","n","t">>
T_imagePng == <<"i","m","a","g","e","/","p","n","g">>

Users == {"u1", "u2"}

----------------------------------------------------------------------------
(* The File schema: setters, validation and the pre-save hook *)

\* enum of fileSchema.category
Categories == {T_personal, T_work, T_education, T_entertainment, T_other}

\* validateFileUpload: 'Maximum 10 tags allowed'. The rule is exported by the
\* validation middleware; POST /upload runs authenticate, uploadMiddleware and
\* validateFileType only, and the schema's tags path has no length validator.
TagLimit == 10

\* tags: [{ type: String, trim: true, lowercase: true }]
TagsSetter(tags) == [i \in 1..Len(tags) |-> toLowerCase(trim(tags[i]))]

\* searchKeywords: [{ type: String, lowercase: true }]
KeywordsSetter(kws) == [i \in 1..Len(kws) |-> toLowerCase(kws[i])]

\* title and description: { type: String, trim: true }
TrimSetter(v) == trim(v)

\* Validation on save: title is required, category is one of the enum
ValidateFile(f) == f.title # <<>> /\ f.category \in Categories

\* this.originalName.toLowerCase().replace(/\.[^/.]+$/, '')
RECURSIVE LastDot(_, _)
LastDot(s, i) ==
    IF i = 0 THEN 0 ELSE IF s[i] = "." THEN i ELSE LastDot(s, i - 1)

nameWithoutExt(name) ==
    LET s == toLowerCase(name)
        d == LastDot(s, Len(s))
    IN  IF d > 0 /\ d < Len(s) /\ \A j \in (d + 1)..Len(s) : s[j] # "/"
        THEN SubSeq(s, 1, d - 1)
        ELSE s

\* The keywords the pre-save hook computes
HookKeywords(f) ==
    LET keywords ==
            (IF f.title # <<>> THEN split(toLowerCase(f.title), Whitespace) ELSE <<>>)
            \o (IF f.description # <<>>
                THEN split(toLowerCase(f.description), Whitespace) ELSE <<>>)
            \o (IF Len(f.tags) > 0 THEN f.tags ELSE <<>>)
            \o (IF f.originalName # <<>>
                THEN split(nameWithoutExt(f.originalName), Whitespace \cup {"_", "-"})
                ELSE <<>>)
    IN  FilterLen(Dedupe(keywords, <<>>), 1)

\* fileSchema.pre('save'): recomputes searchKeywords when title, description
\* or tags are modified, and leaves the document alone otherwise
preSave(f, modified) ==
    IF modified \cap {"title", "description", "tags"} # {}
    THEN [f EXCEPT !.searchKeywords = KeywordsSetter(HookKeywords(f))]
    ELSE f

----------------------------------------------------------------------------
(* FileService: pure helpers *)

determineFileType(mimeType) ==
    IF startsWith(mimeType, <<"i","m","a","g","e","/">>) THEN T_image
    ELSE IF startsWith(mimeType, <<"v","i","d","e","o","/">>) THEN T_video
    ELSE IF startsWith(mimeType, <<"a","u","d","i","o","/">>) THEN T_audio
    ELSE T_document

generateSearchKeywords(f) ==
    LET keywords ==
            (IF f.title # <<>> THEN split(toLowerCase(f.title), Whitespace) ELSE <<>>)
            \o (IF f.description # <<>>
                THEN split(toLowerCase(f.description), Whitespace) ELSE <<>>)
            \o [i \in 1..Len(f.tags) |-> toLowerCase(f.tags[i])]
            \o (IF f.originalName # <<>>
                THEN split(toLowerCase(f.originalName), Whitespace \cup {"."})
                ELSE <<>>)
            \o <<f.fileType, f.category>>
    IN  Dedupe(FilterLen(keywords, 3), <<>>)

----------------------------------------------------------------------------
(* The File collection *)

\* Variant: a lookup by id alone, without the owner
OwnedByAnyone(f, fileId, userId) == f._id = fileId

\* File.findOne({ _id: fileId, uploadedBy: userId })
OwnedBy(f, fileId, userId) == f._id = fileId /\ f.uploadedBy = userId

\* Variant: a lookup by id alone, without the $or
ReadableByAnyone(f, fileId, userId) == f._id = fileId

\* File.findOne({ _id: fileId, $or: [{ uploadedBy: userId }, { isPublic: true }] })
ReadableBy(f, fileId, userId) ==
    f._id = fileId /\ (f.uploadedBy = userId \/ f.isPublic)

\* query = { uploadedBy: userId }; if (fileType) ...; if (category) ...
MatchesQuery(f, userId, fileType, category) ==
    /\ f.uploadedBy = userId
    /\ (fileType # <<>> => f.fileType = fileType)
    /\ (category # <<>> => f.category = category)

FindIndex(fs, fileId) ==
    IF \E i \in 1..Len(fs) : fs[i]._id = fileId
    THEN CHOOSE i \in 1..Len(fs) : fs[i]._id = fileId
    ELSE 0

\* File.findByIdAndDelete(fileId)
RemoveById(fs, fileId) ==
    LET Keep(f) == f._id # fileId IN SelectSeq(fs, Keep)

----------------------------------------------------------------------------
(* FileService.updateUserStats *)

\* Variant: no clamp, the second argument is taken
MaxUnclamped(a, b) == b

\* Math.max
Max(a, b) == IF a >= b THEN a ELSE b

updateUserStats(us, userId, sizeChange) ==
    IF userId \in DOMAIN us
    THEN IF sizeChange > 0
         THEN [us EXCEPT ![userId] =
                  [totalFiles |-> @.totalFiles + 1,
                   storageUsed |-> @.storageUsed + sizeChange]]
         ELSE [us EXCEPT ![userId] =
                  [totalFiles |-> Max(0, @.totalFiles - 1),
                   storageUsed |-> Max(0, @.storageUsed + sizeChange)]]
    ELSE us

\* Variant: an error of the counter update reaches the caller
updateUserStatsRethrows(statsOk) == ~statsOk

\* updateUserStats catches every error of the user lookup and save, logs it
\* and returns: nothing is thrown to uploadFile or deleteFile
updateUserStatsThrows(statsOk) == FALSE

----------------------------------------------------------------------------
(* CloudinaryService.deleteFile *)

\* What one cloudinary.uploader.destroy call can do: resolve with a result
\* string, or reject
DestroyOutcomes == {"ok", "not found", "error", "throw"}

Accepted(outcome) == outcome = "ok" \/ outcome = "not found"

\* The 'auto' branch: image, video, raw in turn, until one is accepted.
\* outs[i] is what the i-th call would do.
typesToTry == <<"image", "video", "raw">>

\* Variant: every type is tried, whatever the earlier calls answered
RECURSIVE AutoAttemptsNoBreak(_, _)
AutoAttemptsNoBreak(outs, i) ==
    IF i > Len(typesToTry) THEN <<>>
    ELSE <<[type |-> typesToTry[i], outcome |-> outs[i]]>>
         \o AutoAttemptsNoBreak(outs, i + 1)

RECURSIVE AutoAttempts(_, _)
AutoAttempts(outs, i) ==
    IF i > Len(typesToTry) THEN <<>>
    ELSE IF Accepted(outs[i])
         THEN <<[type |-> typesToTry[i], outcome |-> outs[i]]>>
         ELSE <<[type |-> typesToTry[i], outcome |-> outs[i]]>>
              \o AutoAttempts(outs, i + 1)

\* deleteResult after the loop: the last call that resolved, or none
RECURSIVE LastResolved(_)
LastResolved(attempts) ==
    IF attempts = <<>> THEN "none"
    ELSE IF attempts[Len(attempts)].outcome # "throw"
         THEN attempts[Len(attempts)].outcome
         ELSE LastResolved(SubSeq(attempts, 1, Len(attempts) - 1))

\* resourceType is "undefined" when the caller passes none: the parameter's
\* default 'image' applies
CloudinaryDeleteFile(resourceType, outs) ==
    LET actual == IF resourceType = "undefined" THEN "image" ELSE resourceType
    IN  IF actual = "auto"
        THEN LET attempts == AutoAttempts(outs, 1)
                 deleteResult == LastResolved(attempts)
             IN  [success |-> Accepted(deleteResult), attempts |-> attempts]
        ELSE [success |-> outs[1] # "throw",
              attempts |-> <<[type |-> actual, outcome |-> outs[1]]>>]

\* The object is gone once some destroy call answered 'ok'
ObjectsAfterDelete(objs, cloudinaryId, attempts) ==
    IF \E i \in 1..Len(attempts) : attempts[i].outcome = "ok"
    THEN objs \ {cloudinaryId}
    ELSE objs

\* What destroy can answer for an object: 'ok' only if it is there
PossibleOutcomes(objs, cloudinaryId) ==
    IF cloudinaryId \in objs THEN DestroyOutcomes ELSE DestroyOutcomes \ {"ok"}

\* file.metadata.resourceType: the schema's metadata has no resourceType
\* path, so the value set at upload is not stored
metadataResourceType(f) == "undefined"

----------------------------------------------------------------------------
(* Relevance scoring (FileService.searchFiles). Scores are in thousandths   *)
(* of a point; the clock and createdAt are in days.                         *)

\* floor(1000 * Math.log(n)) for n = 1, 2, ...
LnMilli == <<0, 693, 1098, 1386, 1609, 1791, 1945, 2079>>

\* new RegExp(searchQuery.trim(), 'i') tested against a string; the queries
\* of the model hold letters and spaces only, so the pattern is literal
RegexTest(searchQuery, s) ==
    includes(toLowerCase(s), toLowerCase(trim(searchQuery)))

\* Variant: the text conditions are left out of the search filter
MatchesSearchAlways(f, searchQuery) == TRUE

\* The $or of the search filter
MatchesSearch(f, searchQuery) ==
    \/ RegexTest(searchQuery, f.title)
    \/ (f.description # <<>> /\ RegexTest(searchQuery, f.description))
    \/ RegexTest(searchQuery, f.originalName)
    \/ \E i \in 1..Len(f.tags) : RegexTest(searchQuery, f.tags[i])
    \/ \E i \in 1..Len(f.searchKeywords) : RegexTest(searchQuery, f.searchKeywords[i])

\* Title, description, tags and keywords against queryLower
TextScore(f, searchQuery) ==
    LET queryLower == toLowerCase(searchQuery)
        titleLower == toLowerCase(f.title)
    IN  (IF titleLower = queryLower THEN 20000
         ELSE IF includes(titleLower, queryLower) THEN 10000 ELSE 0)
        + (IF includes(toLowerCase(f.description), queryLower) THEN 5000 ELSE 0)
        + (IF \E i \in 1..Len(f.tags) : toLowerCase(f.tags[i]) = queryLower
           THEN 15000
           ELSE IF \E i \in 1..Len(f.tags) :
                       includes(toLowerCase(f.tags[i]), queryLower)
                THEN 7000 ELSE 0)
        + (IF \E i \in 1..Len(f.searchKeywords) :
                  includes(toLowerCase(f.searchKeywords[i]), queryLower)
           THEN 3000 ELSE 0)

\* Math.log(file.viewCount + 1) * 1
ViewBonus(f) == LnMilli[f.viewCount + 1]

\* Variant: the bonus without its 30-day guard
RecencyBonusUnguarded(f, t) == (30 - (t - f.createdAt)) * 100

\* if (daysSinceUpload < 30) score += (30 - daysSinceUpload) * 0.1
RecencyBonus(f, t) ==
    LET daysSinceUpload == t - f.createdAt
    IN  IF daysSinceUpload < 30 THEN (30 - daysSinceUpload) * 100 ELSE 0

relevanceScore(f, searchQuery, t) ==
    TextScore(f, searchQuery) + ViewBonus(f) + RecencyBonus(f, t)

\* Variant: a sort that puts a later record before earlier ones of equal score
RECURSIVE InsertByScoreTiesReversed(_, _)
InsertByScoreTiesReversed(sorted, x) ==
    IF sorted = <<>> THEN <<x>>
    ELSE IF Head(sorted).relevanceScore > x.relevanceScore
         THEN <<Head(sorted)>> \o InsertByScoreTiesReversed(Tail(sorted), x)
         ELSE <<x>> \o sorted

\* scoredResults.sort((a, b) => b.relevanceScore - a.relevanceScore): stable
RECURSIVE InsertByScore(_, _)
InsertByScore(sorted, x) ==
    IF sorted = <<>> THEN <<x>>
    ELSE IF Head(sorted).relevanceScore >= x.relevanceScore
         THEN <<Head(sorted)>> \o InsertByScore(Tail(sorted), x)
         ELSE <<x>> \o sorted

RECURSIVE SortByScore(_, _)
SortByScore(seq, acc) ==
    IF seq = <<>> THEN acc
    ELSE SortByScore(Tail(seq), InsertByScore(acc, Head(seq)))

Min(a, b) == IF a <= b THEN a ELSE b

\* Array.prototype.slice(skip, skip + limit), and the store's skip and limit
\* Variant: the page always starts at the first result
SliceIgnoringSkip(seq, skip, limit) == SubSeq(seq, 1, Min(limit, Len(seq)))

\* Array.prototype.slice(skip, skip + limit)
Slice(seq, skip, limit) == SubSeq(seq, skip + 1, Min(skip + limit, Len(seq)))

----------------------------------------------------------------------------
(* Listing: the store's sort *)

CharOrder ==
    <<" ", ",", "-", ".", "/", "4">> \o UpperChars \o <<"_">> \o LowerChars

CharCode(c) == CHOOSE i \in 1..Len(CharOrder) : CharOrder[i] = c

RECURSIVE StrLess(_, _)
StrLess(a, b) ==
    IF b = <<>> THEN FALSE
    ELSE IF a = <<>> THEN TRUE
    ELSE IF Head(a) = Head(b) THEN StrLess(Tail(a), Tail(b))
    ELSE CharCode(Head(a)) < CharCode(Head(b))

\* Variant: a sortBy that is none of the four named keys sorts by nothing
SortsBeforeNoDefault(f, g, sortBy, sortOrder) ==
    LET less ==
            CASE sortBy = "name" -> StrLess(f.title, g.title)
              [] sortBy = "size" -> f.size < g.size
              [] sortBy = "views" -> f.viewCount < g.viewCount
              [] sortBy = "date" -> f.createdAt < g.createdAt
              [] OTHER -> FALSE
        more ==
            CASE sortBy = "name" -> StrLess(g.title, f.title)
              [] sortBy = "size" -> g.size < f.size
              [] sortBy = "views" -> g.viewCount < f.viewCount
              [] sortBy = "date" -> g.createdAt < f.createdAt
              [] OTHER -> FALSE
    IN  IF sortOrder = "asc" THEN less ELSE more

\* f sorts strictly before g under sortOptions
SortsBefore(f, g, sortBy, sortOrder) ==
    LET less ==
            CASE sortBy = "name" -> StrLess(f.title, g.title)
              [] sortBy = "size" -> f.size < g.size
              [] sortBy = "views" -> f.viewCount < g.viewCount
              [] OTHER -> f.createdAt < g.createdAt
        more ==
            CASE sortBy = "name" -> StrLess(g.title, f.title)
              [] sortBy = "size" -> g.size < f.size
              [] sortBy = "views" -> g.viewCount < f.viewCount
              [] OTHER -> g.createdAt < f.createdAt
    IN  IF sortOrder = "asc" THEN less ELSE more

\* The orders in which the store may return recs sorted: equal keys come in
\* an order the store chooses
SortedOrders(recs, sortBy, sortOrder) ==
    LET n == Len(recs)
        perms == {p \in [1..n -> 1..n] : \A i, j \in 1..n : i # j => p[i] # p[j]}
    IN  {[i \in 1..n |-> recs[p[i]]] : p \in
            {q \in perms : \A i, j \in 1..n :
                i < j => ~SortsBefore(recs[q[j]], recs[q[i]], sortBy, sortOrder)}}

\* Math.ceil(totalFiles / limit)
CeilDiv(a, b) == IF a % b = 0 THEN a \div b ELSE (a \div b) + 1

\* Variant: hasNext off by one
ListPaginationOffByOne(page, limit, totalFiles) ==
    [currentPage |-> page,
     totalPages |-> CeilDiv(totalFiles, limit),
     totalFiles |-> totalFiles,
     hasNext |-> (page - 1) * limit + limit <= totalFiles,
     hasPrev |-> page > 1,
     limit |-> limit]

\* The pagination object of getUserFiles
ListPagination(page, limit, totalFiles) ==
    [currentPage |-> page,
     totalPages |-> CeilDiv(totalFiles, limit),
     totalFiles |-> totalFiles,
     hasNext |-> (page - 1) * limit + limit < totalFiles,
     hasPrev |-> page > 1,
     limit |-> limit]

\* The pagination object of searchFiles
SearchPagination(page, limit, totalFiles) ==
    [currentPage |-> page,
     totalPages |-> CeilDiv(totalFiles, limit),
     totalFiles |-> totalFiles,
     hasNext |-> (page - 1) * limit + limit < totalFiles,
     hasPrev |-> page > 1,
     limit |-> limit]

----------------------------------------------------------------------------
(* Requests and responses *)

NoPagination ==
    [currentPage |-> 0, totalPages |-> 0, totalFiles |-> 0,
     hasNext |-> FALSE, hasPrev |-> FALSE, limit |-> 0]

Unset == [set |-> FALSE]
Set(v) == [set |-> TRUE, v |-> v]

\* The keys of an update body: the five the service reads, and three it
\* does not
NoUpdates ==
    [title |-> Unset, description |-> Unset, tags |-> Unset,
     category |-> Unset, isPublic |-> Unset,
     uploadedBy |-> Unset, size |-> Unset, viewCount |-> Unset]

\* What a service call returns (success) or throws (not success), with the
\* object-storage calls it made (attempts) and what each of them did
NoResponse ==
    [op |-> "none", caller |-> "none", success |-> TRUE, error |-> "",
     fileId |-> 0, mode |-> "none", files |-> <<>>,
     pagination |-> NoPagination, page |-> 0, limit |-> 0,
     q |-> <<>>, at |-> 0, attempts |-> <<>>, updates |-> NoUpdates,
     viewCount |-> 0, sortBy |-> "none", sortOrder |-> "none",
     path |-> <<>>, fileType |-> <<>>, category |-> <<>>,
     resourceType |-> "none",
     stats |-> [totalFiles |-> 0, totalSize |-> 0, totalViews |-> 0,
                fileTypes |-> {}]]

\* isPublic === 'true' || isPublic === true
isPublicValue(x) ==
    (x.t = "string" /\ x.s = T_true) \/ (x.t = "boolean" /\ x.b = TRUE)

\* tags ? (Array.isArray(tags) ? tags : tags.split(',').map(tag => tag.trim())) : []
uploadTags(x) ==
    IF x.t = "undefined" \/ (x.t = "string" /\ x.s = <<>>) THEN <<>>
    ELSE IF x.t = "array" THEN x.a
    ELSE LET parts == splitComma(x.s)
         IN  [i \in 1..Len(parts) |-> trim(parts[i])]

\* typeof updates.tags === 'string' ? updates.tags.split(',').map(trim) : updates.tags
updateTags(x) ==
    IF x.t = "string"
    THEN LET parts == splitComma(x.s)
         IN  [i \in 1..Len(parts) |-> trim(parts[i])]
    ELSE x.a

\* The document uploadFile builds: new File({...}) with the schema's setters
\* and defaults, then searchKeywords = generateSearchKeywords(fileRecord)
NewFileRecord(form, userId, id, t) ==
    LET originalName ==
            IF form.originalname # <<>> THEN form.originalname ELSE T_unnamed
        doc ==
            [_id |-> id,
             title |-> TrimSetter(IF form.title # <<>> THEN form.title
                                  ELSE originalName),
             description |-> TrimSetter(form.description),
             originalName |-> originalName,
             cloudinaryId |-> id,
             fileType |-> determineFileType(form.mimetype),
             mimeType |-> form.mimetype,
             size |-> form.size,
             tags |-> TagsSetter(uploadTags(form.tags)),
             category |-> IF form.category # <<>> THEN form.category ELSE T_other,
             isPublic |-> isPublicValue(form.isPublic),
             viewCount |-> 0,
             uploadedBy |-> userId,
             searchKeywords |-> <<>>,
             createdAt |-> t]
    IN  [doc EXCEPT !.searchKeywords = KeywordsSetter(generateSearchKeywords(doc))]

\* Variant: the storage result is not looked at
UploadNeverAborts(cloudOk) == FALSE

\* uploadFile gives up when the storage upload did not succeed
UploadAborts(cloudOk) == ~cloudOk

----------------------------------------------------------------------------
(* FileService.uploadFile *)

\* cloudOk: the storage upload resolves; dbOk: the store accepts the save;
\* statsOk: the counter update does not throw
UploadFile(userId, form, cloudOk, dbOk, statsOk) ==
    /\ nextId < MaxUploads
    /\ LET id == nextId + 1
           doc == NewFileRecord(form, userId, id, now)
           saved == preSave(doc, {"title", "description", "tags"})
           resp == [NoResponse EXCEPT
                       !.op = "uploadFile", !.caller = userId,
                       !.attempts = <<[type |-> "upload",
                                       outcome |-> IF cloudOk THEN "ok" ELSE "throw"]>>]
       IN  IF UploadAborts(cloudOk)
           THEN /\ response' =
                     [resp EXCEPT !.success = FALSE,
                                  !.error = "Failed to upload file to cloud storage"]
                /\ UNCHANGED <<files, users, objects, nextId, now, statsFailed, inflight, accounts>>
           ELSE IF ~(dbOk /\ ValidateFile(doc))
           THEN /\ objects' = IF cloudOk THEN objects \cup {id} ELSE objects
                /\ nextId' = id
                /\ response' = [resp EXCEPT !.success = FALSE,
                                            !.error = "store failure"]
                /\ UNCHANGED <<files, users, now, statsFailed, inflight, accounts>>
           ELSE /\ objects' = IF cloudOk THEN objects \cup {id} ELSE objects
                /\ nextId' = id
                /\ files' = Append(files, saved)
                /\ users' = IF statsOk
                            THEN updateUserStats(users, userId, form.size)
                            ELSE users
                /\ statsFailed' =
                       IF statsOk THEN statsFailed
                       ELSE statsFailed \cup
                            {[userId |-> userId, op |-> "uploadFile", fileId |-> id]}
                /\ response' =
                       IF updateUserStatsThrows(statsOk)
                       THEN [resp EXCEPT !.success = FALSE, !.fileId = id,
                                         !.error = "File upload failed"]
                       ELSE [resp EXCEPT !.fileId = id, !.files = <<saved>>]
                /\ UNCHANGED <<now, inflight, accounts>>

----------------------------------------------------------------------------
(* FileService.deleteFile *)

DeleteFile(fileId, userId, outs, dbOk, statsOk) ==
    LET Mine(f) == OwnedBy(f, fileId, userId)
        found == SelectSeq(files, Mine)
        resp == [NoResponse EXCEPT !.op = "deleteFile", !.caller = userId,
                                   !.fileId = fileId]
    IN  IF found = <<>>
        THEN /\ response' = [resp EXCEPT !.success = FALSE,
                                !.error = "File not found or access denied"]
             /\ UNCHANGED <<files, users, objects, nextId, now, statsFailed, inflight, accounts>>
        ELSE LET file == found[1]
                 cloud == CloudinaryDeleteFile(metadataResourceType(file), outs)
             IN  /\ \A i \in 1..Len(outs) :
                        outs[i] \in PossibleOutcomes(objects, file.cloudinaryId)
                 /\ objects' = ObjectsAfterDelete(objects, file.cloudinaryId,
                                                  cloud.attempts)
                 /\ IF ~cloud.success
                    THEN /\ response' =
                              [resp EXCEPT !.success = FALSE,
                                  !.attempts = cloud.attempts,
                                  !.error = "Failed to delete file from cloud storage"]
                         /\ UNCHANGED <<files, users, nextId, now, statsFailed, inflight, accounts>>
                    ELSE IF ~dbOk
                    THEN /\ response' =
                              [resp EXCEPT !.success = FALSE,
                                  !.attempts = cloud.attempts,
                                  !.error = "store failure"]
                         /\ UNCHANGED <<files, users, nextId, now, statsFailed, inflight, accounts>>
                    ELSE /\ files' = RemoveById(files, fileId)
                         /\ users' = IF statsOk
                                     THEN updateUserStats(users, userId, -file.size)
                                     ELSE users
                         /\ statsFailed' =
                                IF statsOk THEN statsFailed
                                ELSE statsFailed \cup
                                     {[userId |-> userId, op |-> "deleteFile",
                                       fileId |-> fileId]}
                         /\ response' =
                                IF updateUserStatsThrows(statsOk)
                                THEN [resp EXCEPT !.success = FALSE,
                                         !.attempts = cloud.attempts,
                                         !.error = "Failed to delete file"]
                                ELSE [resp EXCEPT !.attempts = cloud.attempts]
                         /\ UNCHANGED <<nextId, now, inflight, accounts>>

\* A call of CloudinaryService.deleteFile(cloudinaryId, resourceType) on its
\* own
CloudinaryDelete(cloudinaryId, resourceType, outs) ==
    LET cloud == CloudinaryDeleteFile(resourceType, outs)
    IN  /\ \A i \in 1..Len(outs) :
               outs[i] \in PossibleOutcomes(objects, cloudinaryId)
        /\ objects' = ObjectsAfterDelete(objects, cloudinaryId, cloud.attempts)
        /\ response' = [NoResponse EXCEPT
                           !.op = "cloudinaryDelete", !.fileId = cloudinaryId,
                           !.resourceType = resourceType,
                           !.success = cloud.success,
                           !.attempts = cloud.attempts,
                           !.error = IF cloud.success THEN ""
                                     ELSE "Failed to delete file from cloud storage"]
        /\ UNCHANGED <<files, users, nextId, now, statsFailed, inflight, accounts>>

----------------------------------------------------------------------------
(* FileService.getFileById *)

GetFileById(fileId, userId) ==
    LET Visible(f) == ReadableBy(f, fileId, userId)
        found == SelectSeq(files, Visible)
        resp == [NoResponse EXCEPT !.op = "getFileById", !.caller = userId,
                                   !.fileId = fileId]
    IN  /\ response' =
              IF found = <<>>
              THEN [resp EXCEPT !.success = FALSE,
                                !.error = "File not found or access denied"]
              ELSE [resp EXCEPT !.files = <<found[1]>>]
        /\ UNCHANGED <<files, users, objects, nextId, now, statsFailed, inflight, accounts>>

----------------------------------------------------------------------------
(* FileService.getUserFiles *)

GetUserFiles(userId, page, limit, fileType, category, sortBy, sortOrder) ==
    LET skip == (page - 1) * limit
        InQuery(f) == MatchesQuery(f, userId, fileType, category)
        matching == SelectSeq(files, InQuery)
        totalFiles == Len(matching)
    IN  /\ \E sorted \in SortedOrders(matching, sortBy, sortOrder) :
              response' =
                  [NoResponse EXCEPT
                      !.op = "getUserFiles", !.caller = userId,
                      !.mode = "listing", !.page = page, !.limit = limit,
                      !.files = Slice(sorted, skip, limit),
                      !.pagination = ListPagination(page, limit, totalFiles)]
        /\ UNCHANGED <<files, users, objects, nextId, now, statsFailed, inflight, accounts>>

----------------------------------------------------------------------------
(* FileService.searchFiles *)

\* { ...file, relevanceScore: score }
Scored(f, searchQuery, t) ==
    f @@ [relevanceScore |-> relevanceScore(f, searchQuery, t)]

SearchFiles(userId, searchQuery, page, limit, fileType, category, sortBy, sortOrder) ==
    LET skip == (page - 1) * limit
        InQuery(f) == MatchesQuery(f, userId, fileType, category)
        InSearch(f) == InQuery(f) /\ MatchesSearch(f, searchQuery)
        resp == [NoResponse EXCEPT !.op = "searchFiles", !.caller = userId,
                                   !.page = page, !.limit = limit,
                                   !.q = searchQuery, !.at = now,
                                   !.fileType = fileType, !.category = category,
                                   !.sortBy = sortBy, !.sortOrder = sortOrder]
    IN  /\ IF trim(searchQuery) # <<>>
           THEN LET searchResults == SelectSeq(files, InSearch)
                    scoredResults ==
                        [i \in 1..Len(searchResults) |->
                            Scored(searchResults[i], searchQuery, now)]
                    sorted == SortByScore(scoredResults, <<>>)
                IN  response' =
                        [resp EXCEPT
                            !.mode = "search",
                            !.files = Slice(sorted, skip, limit),
                            !.pagination =
                                SearchPagination(page, limit, Len(searchResults))]
           ELSE LET matching == SelectSeq(files, InQuery)
                IN  \E sorted \in SortedOrders(matching, sortBy, sortOrder) :
                        response' =
                            [resp EXCEPT
                                !.mode = "listing",
                                !.files = Slice(sorted, skip, limit),
                                !.pagination =
                                    SearchPagination(page, limit, Len(matching))]
        /\ UNCHANGED <<files, users, objects, nextId, now, statsFailed, inflight, accounts>>

----------------------------------------------------------------------------
(* FileService.updateFile *)

\* allowedUpdates.forEach(field => ...): the document after the assignments
\* Variant: every key of the body is assigned
ApplyUpdatesAnyKey(file, updates) ==
    [file EXCEPT
        !.title = IF updates.title.set THEN TrimSetter(updates.title.v) ELSE @,
        !.description =
            IF updates.description.set THEN TrimSetter(updates.description.v) ELSE @,
        !.tags = IF updates.tags.set THEN TagsSetter(updateTags(updates.tags.v)) ELSE @,
        !.category = IF updates.category.set THEN updates.category.v ELSE @,
        !.isPublic = IF updates.isPublic.set THEN isPublicValue(updates.isPublic.v) ELSE @,
        !.uploadedBy = IF updates.uploadedBy.set THEN updates.uploadedBy.v ELSE @,
        !.size = IF updates.size.set THEN updates.size.v ELSE @,
        !.viewCount = IF updates.viewCount.set THEN updates.viewCount.v ELSE @]

ApplyUpdates(file, updates) ==
    [file EXCEPT
        !.title = IF updates.title.set THEN TrimSetter(updates.title.v) ELSE @,
        !.description =
            IF updates.description.set THEN TrimSetter(updates.description.v) ELSE @,
        !.tags = IF updates.tags.set THEN TagsSetter(updateTags(updates.tags.v)) ELSE @,
        !.category = IF updates.category.set THEN updates.category.v ELSE @,
        !.isPublic = IF updates.isPublic.set THEN isPublicValue(updates.isPublic.v) ELSE @]

\* The paths whose value the assignments changed (isModified)
ModifiedPaths(old, new) ==
    {p \in {"title", "description", "tags", "category", "isPublic"} : old[p] # new[p]}

UpdateFile(fileId, userId, updates, dbOk) ==
    LET Mine(f) == OwnedBy(f, fileId, userId)
        found == SelectSeq(files, Mine)
        resp == [NoResponse EXCEPT !.op = "updateFile", !.caller = userId,
                                   !.fileId = fileId, !.updates = updates]
    IN  IF found = <<>>
        THEN /\ response' = [resp EXCEPT !.success = FALSE,
                                !.error = "File not found or access denied"]
             /\ UNCHANGED <<files, users, objects, nextId, now, statsFailed, inflight, accounts>>
        ELSE LET file == found[1]
                 assigned == ApplyUpdates(file, updates)
                 doc == [assigned EXCEPT !.searchKeywords =
                            KeywordsSetter(generateSearchKeywords(assigned))]
                 saved == preSave(doc, ModifiedPaths(file, assigned))
                 i == FindIndex(files, fileId)
             IN  IF ~(dbOk /\ ValidateFile(doc))
                 THEN /\ response' = [resp EXCEPT !.success = FALSE,
                                                  !.error = "store failure"]
                      /\ UNCHANGED <<files, users, objects, nextId, now, statsFailed, inflight, accounts>>
                 ELSE /\ files' = [files EXCEPT ![i] = saved]
                      /\ response' = [resp EXCEPT !.files = <<saved>>]
                      /\ UNCHANGED <<users, objects, nextId, now, statsFailed, inflight, accounts>>

----------------------------------------------------------------------------
(* FileService.incrementViewCount *)

\* The file the call would count a view of has fewer than n views
ViewsBelow(fileId, userId, n) ==
    \A k \in 1..Len(files) :
        ReadableBy(files[k], fileId, userId) => files[k].viewCount < n

IncrementViewCount(fileId, userId) ==
    LET Visible(f) == ReadableBy(f, fileId, userId)
        found == SelectSeq(files, Visible)
        resp == [NoResponse EXCEPT !.op = "incrementViewCount",
                                   !.caller = userId, !.fileId = fileId]
        i == FindIndex(files, fileId)
    IN  IF found = <<>>
        THEN /\ response' = [resp EXCEPT !.success = FALSE,
                                !.error = "File not found or access denied"]
             /\ UNCHANGED <<files, users, objects, nextId, now, statsFailed, inflight, accounts>>
        ELSE /\ files' = [files EXCEPT ![i].viewCount = @ + 1]
             /\ response' = [resp EXCEPT !.viewCount = found[1].viewCount + 1]
             /\ UNCHANGED <<users, objects, nextId, now, statsFailed, inflight, accounts>>

----------------------------------------------------------------------------
(* FileController: the HTTP answer to a service result. The service methods *)
(* catch every error and throw { success: false, message, error }, where    *)
(* message is fixed per method and error is the message of the caught error *)

\* 'Failed to update view count'
M_viewFailed ==
    <<"F","a","i","l","e","d"," ","t","o"," ","u","p","d","a","t","e"," ","v","i","e","w"," ","c","o","u","n","t">>

\* 'not found'
M_notFound ==
    <<"n","o","t"," ","f","o","u","n","d">>

\* 'permission'
M_permission ==
    <<"p","e","r","m","i","s","s","i","o","n">>

\* error.message as the controller sees it: the message of the thrown object,
\* 'File upload failed', 'Failed to get file details', 'Failed to update
\* file', 'Failed to delete file' or 'Failed to update view count'
ServiceErrorMessage(op) ==
    CASE op = "uploadFile" ->
            <<"F","i","l","e"," ","u","p","l","o","a","d"," ",
              "f","a","i","l","e","d">>
      [] op = "getFileById" ->
            <<"F","a","i","l","e","d"," ","t","o"," ","g","e","t"," ",
              "f","i","l","e"," ","d","e","t","a","i","l","s">>
      [] op = "updateFile" ->
            <<"F","a","i","l","e","d"," ","t","o"," ","u","p","d","a","t","e"," ",
              "f","i","l","e">>
      [] op = "deleteFile" ->
            <<"F","a","i","l","e","d"," ","t","o"," ","d","e","l","e","t","e"," ",
              "f","i","l","e">>
      [] op = "incrementViewCount" -> M_viewFailed
      [] OTHER -> <<>>

\* res.status(...) of getFileById, updateFile, deleteFile, updateViewCount
HttpStatus(resp) ==
    IF resp.success THEN 200
    ELSE LET message == ServiceErrorMessage(resp.op)
         IN  CASE resp.op = "getFileById" ->
                    IF includes(message, M_notFound) THEN 404 ELSE 500
               [] resp.op \in {"updateFile", "deleteFile"} ->
                    IF includes(message, M_notFound) THEN 404
                    ELSE IF includes(message, M_permission) THEN 403 ELSE 500
               [] OTHER -> 500

\* The status and the message of the JSON body
HttpResponse(resp) ==
    [status |-> HttpStatus(resp),
     message |-> IF resp.success THEN <<>> ELSE ServiceErrorMessage(resp.op)]

\* FileController.updateFile calls
\* FileService.updateFile(req.params.id, req.body, req.user.id): the service
\* takes (fileId, userId, updates), so the request body is used as the owner
\* in File.findOne({ _id, uploadedBy }). Casting an object without an _id to
\* the ObjectId of uploadedBy throws a CastError, which the service catches
\* and wraps.
HttpPutFile(fileId, caller, body) ==
    /\ response' = [NoResponse EXCEPT
                       !.op = "updateFile", !.caller = caller, !.fileId = fileId,
                       !.updates = body, !.success = FALSE,
                       !.error = "Cast to ObjectId failed"]
    /\ UNCHANGED <<files, users, objects, nextId, now, statsFailed, inflight, accounts>>

\* The file router: the routes in the order of their registration. A path is
\* the sequence of its segments below /api/files.
Routes ==
    << [method |-> "POST",   pattern |-> <<"upload">>,      handler |-> "uploadFile"],
       [method |-> "GET",    pattern |-> <<>>,              handler |-> "getUserFiles"],
       [method |-> "GET",    pattern |-> <<"search">>,      handler |-> "searchFiles"],
       [method |-> "GET",    pattern |-> <<":id">>,         handler |-> "getFileById"],
       [method |-> "PUT",    pattern |-> <<":id">>,         handler |-> "updateFile"],
       [method |-> "PUT",    pattern |-> <<":id", "view">>, handler |-> "updateViewCount"],
       [method |-> "DELETE", pattern |-> <<":id">>,         handler |-> "deleteFile"],
       [method |-> "GET",    pattern |-> <<"stats">>,       handler |-> "getFileStats"] >>

\* A route matches a request of its method whose path has as many segments as
\* the pattern, each equal to the pattern's segment unless that is a parameter
MatchesRoute(route, method, path) ==
    /\ route.method = method
    /\ Len(route.pattern) = Len(path)
    /\ \A i \in 1..Len(path) :
           route.pattern[i] = ":id" \/ route.pattern[i] = path[i]

\* The router runs the first registered route that matches
Dispatch(method, path) ==
    LET Fits(r) == MatchesRoute(r, method, path)
        fitting == SelectSeq(Routes, Fits)
    IN  IF fitting = <<>> THEN "none" ELSE fitting[1].handler

\* $sum of a field over the documents of a group
RECURSIVE SumField(_, _)
SumField(docs, field) ==
    IF docs = <<>> THEN 0 ELSE Head(docs)[field] + SumField(Tail(docs), field)

\* FileService.getFileStats: the caller's totals and the groups by fileType
getFileStats(userId) ==
    LET Mine(f) == f.uploadedBy = userId
        mine == SelectSeq(files, Mine)
        Group(t) == LET OfType(f) == f.fileType = t IN SelectSeq(mine, OfType)
    IN  [totalFiles |-> Len(mine),
         totalSize |-> SumField(mine, "size"),
         totalViews |-> SumField(mine, "viewCount"),
         fileTypes |-> {[type |-> t, count |-> Len(Group(t)),
                         totalSize |-> SumField(Group(t), "size"),
                         totalViews |-> SumField(Group(t), "viewCount")] :
                            t \in {mine[i].fileType : i \in 1..Len(mine)}}]

\* GET /api/files/<segment> by an authenticated caller: the router picks the
\* handler. FileController.getFileById passes req.params.id to
\* FileService.getFileById, where File.findOne casts it to an ObjectId; a
\* segment that is no ObjectId throws a CastError, which the service catches
\* and wraps.
HttpGet(segment, caller) ==
    LET handler == Dispatch("GET", <<segment>>)
        ObjectIdOf == ("1" :> 1) @@ ("2" :> 2)
    IN  CASE handler = "getFileById" /\ segment \in DOMAIN ObjectIdOf ->
                 GetFileById(ObjectIdOf[segment], caller)
          [] handler = "getFileById" /\ segment \notin DOMAIN ObjectIdOf ->
                 /\ response' = [NoResponse EXCEPT
                                    !.op = "getFileById", !.caller = caller,
                                    !.path = <<segment>>, !.success = FALSE,
                                    !.error = "Cast to ObjectId failed"]
                 /\ UNCHANGED <<files, users, objects, nextId, now, statsFailed, inflight, accounts>>
          [] handler = "getFileStats" ->
                 /\ response' = [NoResponse EXCEPT
                                    !.op = "getFileStats", !.caller = caller,
                                    !.path = <<segment>>,
                                    !.stats = getFileStats(caller)]
                 /\ UNCHANGED <<files, users, objects, nextId, now, statsFailed, inflight, accounts>>
          [] handler = "searchFiles" ->
                 SearchFiles(caller, <<>>, 1, MaxLimit, <<>>, <<>>,
                             "relevance", "desc")
          [] OTHER -> FALSE

----------------------------------------------------------------------------
(* AuthService: register, login, tokens, profile, deactivation. A user's    *)
(* email is modelled by the user's id; "nobody" is an email no user has.    *)

\* 'Invalid'
M_Invalid ==
    <<"I","n","v","a","l","i","d">>

\* A registered, active user. The password stands for its bcrypt hash.
RegisteredAccount ==
    [registered |-> TRUE, isActive |-> TRUE, password |-> "secret",
     name |-> "name", lastLogin |-> 0]

\* An account that was never registered
NoAccount ==
    [registered |-> FALSE, isActive |-> FALSE, password |-> "none",
     name |-> "none", lastLogin |-> 0]

\* User.findOne({ email }) and User.findById(id): the user's id, or "null"
findUser(accts, key) ==
    IF key \in DOMAIN accts /\ accts[key].registered THEN key ELSE "null"

\* user.comparePassword(password): bcrypt's compare with the stored hash
comparePassword(account, password) == account.password = password

\* Variant: the isActive flag is not looked at
AccountUsableAlways(account) == TRUE

\* The test `if (!user.isActive) throw ...` of loginUser, verifyToken and
\* refreshToken
AccountUsable(account) == account.isActive

AuthResponse(op, who, ok, err) ==
    [NoResponse EXCEPT !.op = op, !.caller = who, !.success = ok, !.error = err]

registerUser(email, password) ==
    /\ email \in Users
    /\ IF findUser(accounts, email) # "null"
       THEN /\ response' = AuthResponse("registerUser", email, FALSE,
                                        "User already exists with this email")
            /\ UNCHANGED accounts
       ELSE /\ accounts' = [accounts EXCEPT ![email] =
                   [RegisteredAccount EXCEPT !.password = password,
                                             !.lastLogin = now]]
            /\ response' = AuthResponse("registerUser", email, TRUE, "")
    /\ UNCHANGED <<files, users, objects, nextId, now, statsFailed, inflight>>

loginUser(email, password) ==
    LET user == findUser(accounts, email)
    IN  /\ IF user = "null"
           THEN /\ response' = AuthResponse("loginUser", email, FALSE,
                                            "Invalid email or password")
                /\ UNCHANGED accounts
           ELSE IF ~AccountUsable(accounts[user])
           THEN /\ response' =
                     AuthResponse("loginUser", email, FALSE,
                                  "Account is deactivated. Please contact support")
                /\ UNCHANGED accounts
           ELSE IF ~comparePassword(accounts[user], password)
           THEN /\ response' = AuthResponse("loginUser", email, FALSE,
                                            "Invalid email or password")
                /\ UNCHANGED accounts
           ELSE /\ accounts' = [accounts EXCEPT ![user].lastLogin = now]
                /\ response' = AuthResponse("loginUser", email, TRUE, "")
        /\ UNCHANGED <<files, users, objects, nextId, now, statsFailed, inflight>>

\* token: the id it was signed for, and whether jwt.verify accepts it
\* (signature and expiry)
verifyToken(token) ==
    LET user == findUser(accounts, token.id)
    IN  /\ response' =
              IF ~token.valid
              THEN AuthResponse("verifyToken", token.id, FALSE, "jwt error")
              ELSE IF user = "null"
              THEN AuthResponse("verifyToken", token.id, FALSE, "User not found")
              ELSE IF ~AccountUsable(accounts[user])
              THEN AuthResponse("verifyToken", token.id, FALSE,
                                "Account is deactivated")
              ELSE AuthResponse("verifyToken", token.id, TRUE, "")
        /\ UNCHANGED <<files, users, objects, nextId, now, statsFailed, inflight,
                       accounts>>

refreshToken(userId) ==
    LET user == findUser(accounts, userId)
    IN  /\ response' =
              IF user = "null"
              THEN AuthResponse("refreshToken", userId, FALSE, "User not found")
              ELSE IF ~AccountUsable(accounts[user])
              THEN AuthResponse("refreshToken", userId, FALSE,
                                "Account is deactivated")
              ELSE AuthResponse("refreshToken", userId, TRUE, "")
        /\ UNCHANGED <<files, users, objects, nextId, now, statsFailed, inflight,
                       accounts>>

deactivateAccount(userId) ==
    LET user == findUser(accounts, userId)
    IN  /\ IF user = "null"
           THEN /\ response' = AuthResponse("deactivateAccount", userId, FALSE,
                                            "User not found")
                /\ UNCHANGED accounts
           ELSE /\ accounts' = [accounts EXCEPT ![user].isActive = FALSE]
                /\ response' = AuthResponse("deactivateAccount", userId, TRUE, "")
        /\ UNCHANGED <<files, users, objects, nextId, now, statsFailed, inflight>>

\* allowedUpdates = ['name', 'avatar']
updateUserProfile(userId, name) ==
    LET user == findUser(accounts, userId)
    IN  /\ IF user = "null"
           THEN /\ response' = AuthResponse("updateUserProfile", userId, FALSE,
                                            "User not found")
                /\ UNCHANGED accounts
           ELSE /\ accounts' = [accounts EXCEPT ![user].name = name]
                /\ response' = AuthResponse("updateUserProfile", userId, TRUE, "")
        /\ UNCHANGED <<files, users, objects, nextId, now, statsFailed, inflight>>

changePassword(userId, currentPassword, newPassword) ==
    LET user == findUser(accounts, userId)
    IN  /\ IF user = "null"
           THEN /\ response' = AuthResponse("changePassword", userId, FALSE,
                                            "User not found")
                /\ UNCHANGED accounts
           ELSE IF ~comparePassword(accounts[user], currentPassword)
           THEN /\ response' = AuthResponse("changePassword", userId, FALSE,
                                            "Current password is incorrect")
                /\ UNCHANGED accounts
           ELSE /\ accounts' = [accounts EXCEPT ![user].password = newPassword]
                /\ response' = AuthResponse("changePassword", userId, TRUE, "")
        /\ UNCHANGED <<files, users, objects, nextId, now, statsFailed, inflight>>

\* error.message of a failed loginUser: the service rethrows the message of
\* the error it caught, 'Invalid email or password' or 'Account is
\* deactivated. Please contact support'
LoginErrorMessage(resp) ==
    IF resp.error = "Invalid email or password"
    THEN <<"I","n","v","a","l","i","d"," ","e","m","a","i","l"," ","o","r"," ",
           "p","a","s","s","w","o","r","d">>
    ELSE <<"A","c","c","o","u","n","t"," ","i","s"," ","d","e","a","c","t","i","v",
           "a","t","e","d","."," ","P","l","e","a","s","e"," ","c","o","n","t","a",
           "c","t"," ","s","u","p","p","o","r","t">>

\* AuthController.login
LoginHttpResponse(resp) ==
    IF resp.success THEN [status |-> 200, message |-> <<>>]
    ELSE [status |-> IF includes(LoginErrorMessage(resp), M_Invalid)
                     THEN 401 ELSE 500,
          message |-> LoginErrorMessage(resp)]

----------------------------------------------------------------------------
(* The server clock. It is read with new Date() and is not monotonic.       *)

Tick ==
    /\ \E t \in {k * DayStep : k \in 0..MaxTicks} \ {now} : now' = t
    /\ UNCHANGED <<files, users, objects, nextId, response, statsFailed, inflight, accounts>>

----------------------------------------------------------------------------
(* Inputs *)

Undefined == [t |-> "undefined"]
Str(s) == [t |-> "string", s |-> s]
Bool(b) == [t |-> "boolean", b |-> b]
Arr(a) == [t |-> "array", a |-> a]

FileIds == 1..MaxUploads
Pages == 1..MaxPage
Limits == 1..MaxLimit
\* What the destroy calls of one request do. Outside the 'auto' branch only
\* the first call is made.
FirstCallOutcomes == {<<o, "throw", "throw">> : o \in DestroyOutcomes}

\* Uploads of the lifecycle specification: one image, sizes 0..MaxSize,
\* private or public
LifecycleForms ==
    {[originalname |-> T_catPng, mimetype |-> T_imagePng, size |-> sz,
      title |-> T_cat, description |-> <<>>, tags |-> Undefined,
      category |-> <<>>, isPublic |-> ip] :
        sz \in 0..MaxSize, ip \in {Undefined, Str(T_true)}}

\* Bodies of updateFile that change the visibility; the last one also has
\* keys the service does not read
VisibilityUpdates ==
    {[NoUpdates EXCEPT !.isPublic = Set(ip)] : ip \in {Str(T_true), Bool(FALSE)}}
        \cup {[NoUpdates EXCEPT !.isPublic = Set(Str(T_true)),
                                !.uploadedBy = Set("u2"),
                                !.size = Set(MaxSize + 1),
                                !.viewCount = Set(MaxViews)]}

----------------------------------------------------------------------------
(* Specification: requests served one at a time, two users, no failure of   *)
(* the metadata store                                                       *)

\* Counters of a newly registered user
NewUserCounters == [totalFiles |-> 0, storageUsed |-> 0]

\* Requests that can be in flight together
Slots == 1..MaxInFlight

\* A slot with no request in it
Idle ==
    [pc |-> "idle", op |-> "none", userId |-> "none", fileId |-> 0,
     sizeChange |-> 0, user |-> NewUserCounters, doc |-> <<>>,
     page |-> 0, limit |-> 0]

Init ==
    /\ files = <<>>
    /\ users = [u \in Users |-> NewUserCounters]
    /\ objects = {}
    /\ nextId = 0
    /\ now = 0
    /\ response = NoResponse
    /\ statsFailed = {}
    /\ inflight = [s \in Slots |-> Idle]
    /\ accounts = [u \in Users |-> RegisteredAccount]

Next ==
    \/ \E u \in Users, form \in LifecycleForms, cloudOk \in BOOLEAN :
           UploadFile(u, form, cloudOk, TRUE, TRUE)
    \/ \E id \in FileIds, u \in Users, outs \in FirstCallOutcomes :
           DeleteFile(id, u, outs, TRUE, TRUE)
    \/ \E id \in FileIds, u \in Users : GetFileById(id, u)
    \/ \E u \in Users, page \in Pages, limit \in Limits,
          sortBy \in {"date", "size"}, sortOrder \in {"asc", "desc"} :
           GetUserFiles(u, page, limit, <<>>, <<>>, sortBy, sortOrder)
    \/ \E u \in Users, q \in {<<>>, T_cat}, page \in Pages, limit \in Limits :
           SearchFiles(u, q, page, limit, <<>>, <<>>, "relevance", "desc")
    \/ \E id \in FileIds, u \in Users, updates \in VisibilityUpdates :
           UpdateFile(id, u, updates, TRUE)

Spec == Init /\ [][Next]_vars

----------------------------------------------------------------------------
(* Specification: one user's uploads, metadata updates, views and searches, *)
(* with the clock moving                                                    *)

SearchForms ==
    {[originalname |-> T_catPng, mimetype |-> T_imagePng, size |-> 1,
      title |-> T_cat, description |-> <<>>, tags |-> Undefined,
      category |-> <<>>, isPublic |-> Undefined],
     [originalname |-> T_myCatPng, mimetype |-> T_imagePng, size |-> 1,
      title |-> T_Cat, description |-> T_aCat, tags |-> Str(T_catsPet),
      category |-> T_work, isPublic |-> Undefined]}

\* Bodies of updateFile that change what a search reads
SearchUpdates ==
    {[NoUpdates EXCEPT !.title = Set(T_myCat)],
     [NoUpdates EXCEPT !.category = Set(T_work)],
     [NoUpdates EXCEPT !.tags = Set(Arr(<<T_cat>>))]}

NextSearch ==
    \/ \E form \in SearchForms :
           nextId < MaxSearchUploads /\ UploadFile("u1", form, TRUE, TRUE, TRUE)
    \/ \E id \in FileIds, updates \in SearchUpdates :
           UpdateFile(id, "u1", updates, TRUE)
    \/ \E id \in FileIds :
           ViewsBelow(id, "u1", MaxViews) /\ IncrementViewCount(id, "u1")
    \/ \E q \in {T_cat, T_catSp, T_Cat, T_my, T_png, T_blank}, limit \in Limits :
           SearchFiles("u1", q, 1, limit, <<>>, <<>>, "relevance", "desc")
    \/ Tick

SpecSearch == Init /\ [][NextSearch]_vars

----------------------------------------------------------------------------
(* Specification: one user's two uploads made on different days, views and  *)
(* searches for one word                                                    *)

NextRanking ==
    \/ \E form \in SearchForms : UploadFile("u1", form, TRUE, TRUE, TRUE)
    \/ \E id \in FileIds :
           ViewsBelow(id, "u1", MaxViews) /\ IncrementViewCount(id, "u1")
    \/ \E q \in {T_cat, T_blank, <<>>}, limit \in Limits,
          sortBy \in {"relevance", "date"}, sortOrder \in {"asc", "desc"} :
           SearchFiles("u1", q, 1, limit, <<>>, <<>>, sortBy, sortOrder)
    \/ Tick

SpecRanking == Init /\ [][NextRanking]_vars

----------------------------------------------------------------------------
(* Specification: the storage service's deleteFile called with each         *)
(* resource type on stored and missing objects                              *)

NextCloudinary ==
    \/ \E form \in LifecycleForms : UploadFile("u1", form, TRUE, TRUE, TRUE)
    \/ \E id \in FileIds, resourceType \in {"undefined", "auto", "video"},
          outs \in [1..Len(typesToTry) -> DestroyOutcomes] :
           CloudinaryDelete(id, resourceType, outs)

SpecCloudinary == Init /\ [][NextCloudinary]_vars

----------------------------------------------------------------------------
(* Specification: pages of a search, under each sort parameter              *)

NextPaging ==
    \/ \E form \in SearchForms : UploadFile("u1", form, TRUE, TRUE, TRUE)
    \/ \E id \in FileIds :
           ViewsBelow(id, "u1", MaxViews) /\ IncrementViewCount(id, "u1")
    \/ \E q \in {T_cat, T_my}, category \in {<<>>, T_work},
          page \in Pages, limit \in Limits,
          sort \in {<<"relevance", "desc">>, <<"date", "asc">>, <<"name", "asc">>} :
           SearchFiles("u1", q, page, limit, <<>>, category, sort[1], sort[2])

SpecPaging == Init /\ [][NextPaging]_vars

----------------------------------------------------------------------------
(* Specification: store failures. The metadata store may refuse a save or a *)
(* delete, and the counter update may throw.                                *)

NextFaults ==
    \/ \E u \in Users, form \in LifecycleForms, cloudOk, dbOk, statsOk \in BOOLEAN :
           UploadFile(u, form, cloudOk, dbOk, statsOk)
    \/ \E id \in FileIds, u \in Users, outs \in FirstCallOutcomes,
          dbOk, statsOk \in BOOLEAN :
           DeleteFile(id, u, outs, dbOk, statsOk)
    \/ \E id \in FileIds, u \in Users : GetFileById(id, u)

SpecFaults == Init /\ [][NextFaults]_vars

----------------------------------------------------------------------------
(* Concurrent requests of one owner. A request runs up to the await of      *)
(* User.findById in updateUserStats in one step; the lookup and the save    *)
(* are steps of their own, and steps of other requests may come between.    *)

\* uploadFile up to `await this.updateUserStats(userId, file.size)`
StartUpload(slot, userId, form) ==
    /\ inflight[slot].pc = "idle"
    /\ nextId < MaxUploads
    /\ LET id == nextId + 1
           doc == NewFileRecord(form, userId, id, now)
           saved == preSave(doc, {"title", "description", "tags"})
       IN  /\ ValidateFile(doc)
           /\ objects' = objects \cup {id}
           /\ nextId' = id
           /\ files' = Append(files, saved)
           /\ inflight' = [inflight EXCEPT ![slot] =
                  [Idle EXCEPT !.pc = "findUser", !.op = "uploadFile",
                               !.userId = userId, !.fileId = id,
                               !.sizeChange = form.size]]
    /\ UNCHANGED <<users, now, response, statsFailed, accounts>>

\* deleteFile: `await File.findOne({ _id, uploadedBy })` found the file
StartDelete(slot, fileId, userId) ==
    /\ inflight[slot].pc = "idle"
    /\ LET Mine(f) == OwnedBy(f, fileId, userId)
           found == SelectSeq(files, Mine)
       IN  /\ found # <<>>
           /\ inflight' = [inflight EXCEPT ![slot] =
                  [Idle EXCEPT !.pc = "destroy", !.op = "deleteFile",
                               !.userId = userId, !.fileId = fileId,
                               !.sizeChange = -found[1].size,
                               !.doc = <<found[1]>>]]
    /\ UNCHANGED <<files, users, objects, nextId, now, response, statsFailed, accounts>>

\* `await CloudinaryService.deleteFile(file.cloudinaryId,
\* file.metadata.resourceType)`: a rejected call ends the request with the
\* wrapped error
DestroyFile(slot, outcome) ==
    /\ inflight[slot].pc = "destroy"
    /\ LET r == inflight[slot]
           file == r.doc[1]
           cloud == CloudinaryDeleteFile(metadataResourceType(file),
                                         <<outcome, "throw", "throw">>)
       IN  /\ outcome \in PossibleOutcomes(objects, file.cloudinaryId)
           /\ objects' = ObjectsAfterDelete(objects, file.cloudinaryId,
                                            cloud.attempts)
           /\ IF cloud.success
              THEN /\ inflight' = [inflight EXCEPT ![slot].pc = "removeFile"]
                   /\ UNCHANGED response
              ELSE /\ inflight' = [inflight EXCEPT ![slot] = Idle]
                   /\ response' = [NoResponse EXCEPT
                                      !.op = "deleteFile", !.caller = r.userId,
                                      !.fileId = r.fileId, !.success = FALSE,
                                      !.attempts = cloud.attempts,
                                      !.error = "Failed to delete file"]
    /\ UNCHANGED <<files, users, nextId, now, statsFailed, accounts>>

\* `await File.findByIdAndDelete(fileId)`: resolves with the removed document,
\* or with null when the record is gone; deleteFile does not look at it
RemoveFile(slot) ==
    /\ inflight[slot].pc = "removeFile"
    /\ LET r == inflight[slot]
           Same(f) == f._id = r.fileId
       IN  /\ files' = RemoveById(files, r.fileId)
           /\ inflight' = [inflight EXCEPT ![slot].pc = "findUser",
                                           ![slot].doc = SelectSeq(files, Same)]
    /\ UNCHANGED <<users, objects, nextId, now, response, statsFailed, accounts>>

\* User.findById or user.save() rejects: updateUserStats logs the error and
\* returns, and the handler returns success
StatsThrow(slot) ==
    /\ inflight[slot].pc \in {"findUser", "saveUser"}
    /\ LET r == inflight[slot]
       IN  /\ statsFailed' = statsFailed \cup
                  {[userId |-> r.userId, op |-> r.op, fileId |-> r.fileId]}
           /\ response' = [NoResponse EXCEPT
                              !.op = r.op, !.caller = r.userId,
                              !.fileId = r.fileId,
                              !.success = ~updateUserStatsThrows(FALSE)]
    /\ inflight' = [inflight EXCEPT ![slot] = Idle]
    /\ UNCHANGED <<files, users, objects, nextId, now, accounts>>

\* const user = await User.findById(userId)
FindUser(slot) ==
    /\ inflight[slot].pc = "findUser"
    /\ inflight' = [inflight EXCEPT ![slot].pc = "saveUser",
                                    ![slot].user = users[inflight[slot].userId]]
    /\ UNCHANGED <<files, users, objects, nextId, now, response, statsFailed, accounts>>

\* The counters are changed on the document read before, and
\* `await user.save()` writes the paths whose value changed; then the
\* handler returns
SaveUser(slot) ==
    /\ inflight[slot].pc = "saveUser"
    /\ LET r == inflight[slot]
           read == r.user
           changed == updateUserStats([users EXCEPT ![r.userId] = read],
                                      r.userId, r.sizeChange)[r.userId]
       IN  /\ users' = [users EXCEPT ![r.userId] =
                  [totalFiles |-> IF changed.totalFiles # read.totalFiles
                                  THEN changed.totalFiles ELSE @.totalFiles,
                   storageUsed |-> IF changed.storageUsed # read.storageUsed
                                   THEN changed.storageUsed ELSE @.storageUsed]]
           /\ response' = [NoResponse EXCEPT !.op = r.op, !.caller = r.userId,
                                             !.fileId = r.fileId]
    /\ inflight' = [inflight EXCEPT ![slot] = Idle]
    /\ UNCHANGED <<files, objects, nextId, now, statsFailed, accounts>>

\* Uploads of every size that changes the counters
ConcurrentForms ==
    {[originalname |-> T_catPng, mimetype |-> T_imagePng, size |-> sz,
      title |-> T_cat, description |-> <<>>, tags |-> Undefined,
      category |-> <<>>, isPublic |-> Undefined] : sz \in 1..MaxSize}

NextConcurrent ==
    \/ \E slot \in Slots, form \in ConcurrentForms : StartUpload(slot, "u1", form)
    \/ \E slot \in Slots, id \in FileIds : StartDelete(slot, id, "u1")
    \/ \E slot \in Slots, outcome \in DestroyOutcomes : DestroyFile(slot, outcome)
    \/ \E slot \in Slots : RemoveFile(slot)
    \/ \E slot \in Slots : FindUser(slot)
    \/ \E slot \in Slots : SaveUser(slot)
    \/ \E slot \in Slots : StatsThrow(slot)

SpecConcurrent == Init /\ [][NextConcurrent]_vars

----------------------------------------------------------------------------
(* Specification: views of a file counted while updates of it are between   *)
(* their File.findOne and their file.save()                                 *)

\* updateFile up to `await file.save()`: the document is loaded, the allowed
\* keys are assigned and the keywords regenerated, in memory
StartUpdate(slot, fileId, userId, updates) ==
    /\ inflight[slot].pc = "idle"
    /\ LET Mine(f) == OwnedBy(f, fileId, userId)
           found == SelectSeq(files, Mine)
       IN  /\ found # <<>>
           /\ LET file == found[1]
                  assigned == ApplyUpdates(file, updates)
                  doc == [assigned EXCEPT !.searchKeywords =
                             KeywordsSetter(generateSearchKeywords(assigned))]
              IN  inflight' = [inflight EXCEPT ![slot] =
                      [Idle EXCEPT !.pc = "saveFile", !.op = "updateFile",
                                   !.userId = userId, !.fileId = fileId,
                                   !.doc = <<file, doc>>]]
    /\ UNCHANGED <<files, users, objects, nextId, now, response, statsFailed, accounts>>

\* Variant: save() writes every path of the in-memory document
SavedDocumentWhole(stored, read, doc) == doc

\* save() sends the paths whose value differs from the one loaded; the other
\* paths of the stored document stay as they are in the store
SavedDocument(stored, read, doc) ==
    [path \in DOMAIN stored |->
        IF doc[path] # read[path] THEN doc[path] ELSE stored[path]]

\* `await file.save()` of an update in flight, and the handler's return
SaveFile(slot) ==
    /\ inflight[slot].pc = "saveFile"
    /\ LET r == inflight[slot]
           read == r.doc[1]
           doc == preSave(r.doc[2], ModifiedPaths(read, r.doc[2]))
           i == FindIndex(files, r.fileId)
           resp == [NoResponse EXCEPT !.op = "updateFile", !.caller = r.userId,
                                      !.fileId = r.fileId]
       IN  IF i = 0 \/ ~ValidateFile(doc)
           THEN /\ response' = [resp EXCEPT !.success = FALSE,
                                            !.error = "store failure"]
                /\ UNCHANGED files
           ELSE /\ files' = [files EXCEPT ![i] = SavedDocument(@, read, doc)]
                /\ response' = [resp EXCEPT !.files = <<doc>>]
    /\ inflight' = [inflight EXCEPT ![slot] = Idle]
    /\ UNCHANGED <<users, objects, nextId, now, statsFailed, accounts>>

\* Bodies of updateFile sent while views come in; the last one carries a
\* viewCount, which the service does not read
ViewsUpdates ==
    {[NoUpdates EXCEPT !.title = Set(T_myCat)],
     [NoUpdates EXCEPT !.tags = Set(Arr(<<T_cat>>))],
     [NoUpdates EXCEPT !.isPublic = Set(Bool(TRUE)), !.viewCount = Set(0)]}

NextViews ==
    \/ \E form \in LifecycleForms :
           nextId < 1 /\ UploadFile("u1", form, TRUE, TRUE, TRUE)
    \/ \E slot \in Slots, id \in FileIds, updates \in ViewsUpdates :
           StartUpdate(slot, id, "u1", updates)
    \/ \E slot \in Slots : SaveFile(slot)
    \/ \E id \in FileIds, u \in Users :
           ViewsBelow(id, u, MaxConcurrentViews) /\ IncrementViewCount(id, u)

SpecViews == Init /\ [][NextViews]_vars

----------------------------------------------------------------------------
(* Specification: listings whose page query and count query are separate    *)
(* store calls, with uploads and deletes of the same owner completing in    *)
(* between                                                                  *)

\* getUserFiles, and searchFiles with a blank query, up to the page query:
\* `await File.find(query).sort(sortOptions).skip(skip).limit(limit).lean()`
StartListing(slot, op, userId, page, limit) ==
    /\ inflight[slot].pc = "idle"
    /\ LET InQuery(f) == MatchesQuery(f, userId, <<>>, <<>>)
           matching == SelectSeq(files, InQuery)
       IN  \E sorted \in SortedOrders(matching, "date", "desc") :
              inflight' = [inflight EXCEPT ![slot] =
                  [Idle EXCEPT !.pc = "countDocuments", !.op = op,
                               !.userId = userId, !.page = page,
                               !.limit = limit,
                               !.doc = Slice(sorted, (page - 1) * limit, limit)]]
    /\ UNCHANGED <<files, users, objects, nextId, now, response, statsFailed, accounts>>

\* `await File.countDocuments(query)` and the returned object
CountDocuments(slot) ==
    /\ inflight[slot].pc = "countDocuments"
    /\ LET r == inflight[slot]
           InQuery(f) == MatchesQuery(f, r.userId, <<>>, <<>>)
           totalFiles == Len(SelectSeq(files, InQuery))
       IN  response' =
               [NoResponse EXCEPT
                   !.op = r.op, !.caller = r.userId, !.mode = "listing",
                   !.page = r.page, !.limit = r.limit, !.at = now,
                   !.sortBy = "date", !.sortOrder = "desc",
                   !.files = r.doc,
                   !.pagination =
                       IF r.op = "getUserFiles"
                       THEN ListPagination(r.page, r.limit, totalFiles)
                       ELSE SearchPagination(r.page, r.limit, totalFiles)]
    /\ inflight' = [inflight EXCEPT ![slot] = Idle]
    /\ UNCHANGED <<files, users, objects, nextId, now, statsFailed, accounts>>

NextListing ==
    \/ \E form \in {f \in LifecycleForms : f.size = MaxSize /\ f.isPublic = Undefined} :
           UploadFile("u1", form, TRUE, TRUE, TRUE)
    \/ \E id \in FileIds : DeleteFile(id, "u1", <<"ok", "throw", "throw">>, TRUE, TRUE)
    \/ \E slot \in Slots, op \in {"getUserFiles", "searchFiles"},
          page \in Pages, limit \in Limits :
           StartListing(slot, op, "u1", page, limit)
    \/ \E slot \in Slots : CountDocuments(slot)

SpecListing == Init /\ [][NextListing]_vars

----------------------------------------------------------------------------
(* Specification: the file routes as two users call them over HTTP          *)

\* Forms of POST /files/upload: private, public, and one with one tag more
\* than TagLimit
HttpForms ==
    {[originalname |-> T_catPng, mimetype |-> T_imagePng, size |-> 1,
      title |-> T_cat, description |-> <<>>, tags |-> Undefined,
      category |-> <<>>, isPublic |-> ip] : ip \in {Undefined, Str(T_true)}}
        \cup {[originalname |-> T_catPng, mimetype |-> T_imagePng, size |-> 1,
                title |-> T_cat, description |-> <<>>,
                tags |-> Arr([i \in 1..(TagLimit + 1) |-> <<LowerChars[i]>>]),
                category |-> <<>>, isPublic |-> Undefined]}

\* Bodies of PUT /files/:id
HttpPatches ==
    {[NoUpdates EXCEPT !.title = Set(T_myCat)],
     [NoUpdates EXCEPT !.category = Set(T_work)],
     [NoUpdates EXCEPT !.isPublic = Set(Bool(TRUE))]}

NextHttp ==
    \/ \E u \in Users, form \in HttpForms : UploadFile(u, form, TRUE, TRUE, TRUE)
    \/ \E id \in FileIds, u \in Users : GetFileById(id, u)
    \/ \E id \in FileIds, u \in Users, body \in HttpPatches :
           HttpPutFile(id, u, body)
    \/ \E id \in FileIds, u \in Users, outs \in FirstCallOutcomes :
           DeleteFile(id, u, outs, TRUE, TRUE)
    \/ \E id \in FileIds, u \in Users :
           ViewsBelow(id, u, MaxViews) /\ IncrementViewCount(id, u)
    \/ \E segment \in {"1", "2", "search", "stats"}, u \in Users :
           HttpGet(segment, u)

SpecHttp == Init /\ [][NextHttp]_vars

----------------------------------------------------------------------------
(* Specification: accounts. u1 is registered, u2 is not yet.                *)

Emails == Users \cup {"nobody"}
Passwords == {"secret", "wrong"}

InitAuth ==
    /\ files = <<>>
    /\ users = [u \in Users |-> NewUserCounters]
    /\ objects = {}
    /\ nextId = 0
    /\ now = 0
    /\ response = NoResponse
    /\ statsFailed = {}
    /\ inflight = [s \in Slots |-> Idle]
    /\ accounts = [u \in Users |-> IF u = "u1" THEN RegisteredAccount ELSE NoAccount]

NextAuth ==
    \/ \E email \in Users, password \in Passwords : registerUser(email, password)
    \/ \E email \in Emails, password \in Passwords : loginUser(email, password)
    \/ \E token \in [id : Emails, valid : BOOLEAN] : verifyToken(token)
    \/ \E u \in Emails : refreshToken(u)
    \/ \E u \in Emails : deactivateAccount(u)
    \/ \E u \in Emails, name \in {"name", "other"} : updateUserProfile(u, name)
    \/ \E u \in Emails, cur, new \in Passwords : changePassword(u, cur, new)
    \/ Tick

SpecAuth == InitAuth /\ [][NextAuth]_vars

----------------------------------------------------------------------------
(* Properties *)

OwnFiles(u) == SelectSeq(files, LAMBDA f : f.uploadedBy = u)

RECURSIVE SumSizes(_)
SumSizes(fs) == IF fs = <<>> THEN 0 ELSE Head(fs).size + SumSizes(Tail(fs))

AcceptedAttempt(attempts) ==
    \E i \in 1..Len(attempts) :
        attempts[i].type # "upload" /\ Accepted(attempts[i].outcome)

\* C1: searchFiles, getUserFiles and getFileById never return to a caller a
\* record that is private and uploaded by another user.
C1_NoForeignPrivateFile ==
    (response.op \in {"searchFiles", "getUserFiles", "getFileById"}
     /\ response.success)
    => \A i \in 1..Len(response.files) :
          ~(response.files[i].isPublic = FALSE
            /\ response.files[i].uploadedBy # response.caller)

\* C1 witness: a caller asked by id for another user's private file, which
\* is in the store, and was refused.
C1_Witness ==
    /\ response.op = "getFileById"
    /\ ~response.success
    /\ \E i \in 1..Len(files) :
          /\ files[i]._id = response.fileId
          /\ ~files[i].isPublic
          /\ files[i].uploadedBy # response.caller

\* C2 (as claimed): with requests served one at a time and no store failure,
\* each owner's totalFiles is the number of their remaining files and
\* storageUsed the sum of their sizes, both >= 0.
C2_CountersMatchFiles ==
    \A u \in Users :
        (\A e \in statsFailed : e.userId # u) =>
            /\ users[u].totalFiles = Len(OwnFiles(u))
            /\ users[u].storageUsed = SumSizes(OwnFiles(u))
            /\ users[u].totalFiles >= 0
            /\ users[u].storageUsed >= 0

\* C3: an uploadFile whose object-storage write fails ends in an error and
\* changes neither the file records, nor the counters, nor the storage.
C3_FailedStorageWriteChangesNothing ==
    [][(/\ response' # response
        /\ response'.op = "uploadFile"
        /\ response'.attempts[1].outcome = "throw")
       => (/\ ~response'.success
           /\ files' = files
           /\ users' = users
           /\ objects' = objects)]_vars

\* C3 witness: an upload failed at the storage write while the store held a
\* record and non-zero counters.
C3_Witness ==
    /\ response.op = "uploadFile"
    /\ response.attempts[1].outcome = "throw"
    /\ ~response.success
    /\ Len(files) > 0
    /\ \E u \in Users : users[u].storageUsed > 0

\* C4 (as claimed): a record is deleted only after a storage delete attempt
\* for it answered 'ok' or 'not found'; when no attempt does, deleteFile
\* fails and the records and counters are unchanged.
C4_DeleteOnlyAfterAcceptedAttempt ==
    [][(response' # response /\ response'.op = "deleteFile")
       => (/\ files' # files => AcceptedAttempt(response'.attempts)
           /\ ~AcceptedAttempt(response'.attempts)
                 => (/\ ~response'.success
                     /\ files' = files
                     /\ users' = users))]_vars

\* C5: deleteFile for a file that does not exist or belongs to another user
\* fails without any object-storage call and changes no record, no stored
\* object and no counter.
C5_ForeignDeleteChangesNothing ==
    [][(/\ response' # response
        /\ response'.op = "deleteFile"
        /\ ~\E i \in 1..Len(files) :
               /\ files[i]._id = response'.fileId
               /\ files[i].uploadedBy = response'.caller)
       => (/\ ~response'.success
           /\ response'.attempts = <<>>
           /\ files' = files
           /\ objects' = objects
           /\ users' = users)]_vars

\* C5 witness: a delete of another user's file was refused; the file and
\* its stored object are still there.
C5_Witness ==
    /\ response.op = "deleteFile"
    /\ ~response.success
    /\ response.attempts = <<>>
    /\ \E i \in 1..Len(files) :
          /\ files[i]._id = response.fileId
          /\ files[i].uploadedBy # response.caller
          /\ files[i].cloudinaryId \in objects

\* C8: in listing and in search mode, hasNext = (skip + limit < totalItems),
\* hasPrev = (page > 1) and totalPages = ceil(totalItems / limit), that is
\* the least number of pages of size limit that hold totalItems items.
C8_Pagination ==
    response.mode \in {"listing", "search"} =>
        LET p == response.pagination
            page == response.page
            limit == response.limit
        IN  /\ p.hasNext = ((page - 1) * limit + limit < p.totalFiles)
            /\ p.hasPrev = (page > 1)
            /\ p.totalPages >= 0
            /\ p.totalPages * limit >= p.totalFiles
            /\ (p.totalPages > 0 => (p.totalPages - 1) * limit < p.totalFiles)

\* C8 witness: the last page of a listing of several pages, filled exactly.
C8_Witness ==
    /\ response.mode = "listing"
    /\ response.page > 1
    /\ response.pagination.totalPages = response.page
    /\ response.pagination.totalFiles = response.page * response.limit
    /\ ~response.pagination.hasNext
    /\ response.pagination.hasPrev

\* The six fields searchKeywords is derived from
SixFields(f) ==
    <<f.title, f.description, f.tags, f.originalName, f.fileType, f.category>>

\* C6 (as claimed): two persisted records that agree on title, description,
\* tags, originalName, fileType and category have the same searchKeywords set.
C6_KeywordsDeterminedBySixFields ==
    \A i, j \in 1..Len(files) :
        SixFields(files[i]) = SixFields(files[j])
        => Range(files[i].searchKeywords) = Range(files[j].searchKeywords)

\* C7 (as claimed): an updateFile repeated on the same file with the same
\* patch leaves the searchKeywords set of the first application.
C7_UpdateIdempotentOnKeywords ==
    [][(/\ response.op = "updateFile" /\ response.success
        /\ response'.op = "updateFile" /\ response'.success
        /\ response'.fileId = response.fileId
        /\ response'.updates = response.updates)
       => Range(response'.files[1].searchKeywords)
          = Range(response.files[1].searchKeywords)]_vars

\* The text-match score the claim describes, on the lowercased, trimmed query
ClaimedTextScore(f, q) ==
    LET ql == toLowerCase(trim(q))
        title == toLowerCase(f.title)
    IN  (IF title = ql THEN 20000 ELSE IF includes(title, ql) THEN 10000 ELSE 0)
        + (IF includes(toLowerCase(f.description), ql) THEN 5000 ELSE 0)
        + (IF \E i \in 1..Len(f.tags) : toLowerCase(f.tags[i]) = ql THEN 15000
           ELSE IF \E i \in 1..Len(f.tags) : includes(toLowerCase(f.tags[i]), ql)
                THEN 7000 ELSE 0)
        + (IF \E i \in 1..Len(f.searchKeywords) :
                  includes(toLowerCase(f.searchKeywords[i]), ql)
           THEN 3000 ELSE 0)

\* C9 (as claimed): for every non-blank query the text-match part of the
\* relevance score (the score less the view and recency bonuses) is 20 or 10
\* for the title, plus 5 for the description, plus 15 or 7 for the tags,
\* plus 3 for the keywords, all against the lowercased, trimmed query.
C9_TextScoreOnTrimmedQuery ==
    response.mode = "search" =>
        \A i \in 1..Len(response.files) :
            LET f == response.files[i]
            IN  f.relevanceScore - ViewBonus(f) - RecencyBonus(f, response.at)
                = ClaimedTextScore(f, response.q)

\* C10: every relevance score computed by searchFiles is >= 0.
C10_ScoreNonNegative ==
    response.mode = "search" =>
        \A i \in 1..Len(response.files) : response.files[i].relevanceScore >= 0

\* C10 witness: a search returned a file uploaded 30 days or more before,
\* with no text match and no views to add to its score.
C10_Witness ==
    /\ response.mode = "search"
    /\ \E i \in 1..Len(response.files) :
          /\ response.at - response.files[i].createdAt >= 30
          /\ response.files[i].relevanceScore = 0

\* C11 (as claimed): two returned files of one owner with the same text-match
\* score and different createdAt come in store (insertion) order.
C11_TextTiesInStoreOrder ==
    response.mode = "search" =>
        \A i, j \in 1..Len(response.files) :
            LET f == response.files[i]
                g == response.files[j]
            IN  (/\ i < j
                 /\ TextScore(f, response.q) = TextScore(g, response.q)
                 /\ f.createdAt # g.createdAt)
                => f._id < g._id

\* C11 (amended): two returned files with the same relevance score (text
\* match, view bonus and recency bonus together) come in store order.
C11_ScoreTiesInStoreOrder ==
    response.mode = "search" =>
        \A i, j \in 1..Len(response.files) :
            LET f == response.files[i]
                g == response.files[j]
            IN  (i < j /\ f.relevanceScore = g.relevanceScore) => f._id < g._id

\* C11 witness: a search returned two files created on different days with
\* equal relevance scores.
C11_Witness ==
    /\ response.mode = "search"
    /\ Len(response.files) = 2
    /\ response.files[1].relevanceScore = response.files[2].relevanceScore
    /\ response.files[1].createdAt # response.files[2].createdAt

\* A query with no character other than spaces
IsBlank(q) == \A k \in 1..Len(q) : q[k] = " "

\* The caller's records in the store
CallerFileCount == Cardinality({k \in 1..Len(files) : files[k].uploadedBy = response.caller})

\* C12: an empty or whitespace-only query takes the listing path of
\* searchFiles: the total is the count of the caller's files, the page holds
\* the records the skip and limit leave, and none carries a relevance score.
C12_BlankQueryIsListing ==
    (response.op = "searchFiles" /\ IsBlank(response.q)) =>
        /\ response.mode = "listing"
        /\ \A i \in 1..Len(response.files) :
               "relevanceScore" \notin DOMAIN response.files[i]
        /\ response.pagination.totalFiles = CallerFileCount
        /\ Len(response.files)
           = Min(response.limit,
                 Max(0, CallerFileCount - (response.page - 1) * response.limit))

\* C12 witness: a whitespace-only query answered with the caller's files.
C12_Witness ==
    /\ response.op = "searchFiles"
    /\ response.q = T_blank
    /\ response.mode = "listing"
    /\ Len(response.files) = 2

\* C13 (as claimed): sortBy=relevance with a blank query lists the caller's
\* files by createdAt descending, whatever the other parameters are.
C13_BlankRelevanceIsDateDesc ==
    (response.op = "searchFiles" /\ IsBlank(response.q)
        /\ response.sortBy = "relevance") =>
        /\ \A i \in 1..Len(response.files) :
               response.files[i].uploadedBy = response.caller
        /\ \A i, j \in 1..Len(response.files) :
               i < j => response.files[i].createdAt >= response.files[j].createdAt

\* C13 (amended): sortBy=relevance with a blank query lists the caller's
\* files by createdAt in the direction of sortOrder: ascending for 'asc',
\* descending for any other value.
C13_BlankRelevanceIsDateInSortOrder ==
    (response.op = "searchFiles" /\ IsBlank(response.q)
        /\ response.sortBy = "relevance") =>
        /\ \A i \in 1..Len(response.files) :
               response.files[i].uploadedBy = response.caller
        /\ \A i, j \in 1..Len(response.files) :
               i < j =>
                   IF response.sortOrder = "asc"
                   THEN response.files[i].createdAt <= response.files[j].createdAt
                   ELSE response.files[i].createdAt >= response.files[j].createdAt

\* C13 witness: such a listing of two files created on different days.
C13_Witness ==
    /\ response.op = "searchFiles"
    /\ IsBlank(response.q)
    /\ response.sortBy = "relevance"
    /\ Len(response.files) = 2
    /\ response.files[1].createdAt # response.files[2].createdAt

\* C14 (as claimed): when the requests of one owner that were in flight
\* together have all finished, none of their counter updates having thrown,
\* the counters reflect every one of them: totalFiles is the number of the
\* owner's files and storageUsed their sizes.
C14_NoLostCounterUpdate ==
    (statsFailed = {} /\ \A slot \in Slots : inflight[slot].pc = "idle") =>
        /\ users["u1"].totalFiles = Len(OwnFiles("u1"))
        /\ users["u1"].storageUsed = SumSizes(OwnFiles("u1"))

\* C15: when the counter update throws after the record was saved
\* (uploadFile) or deleted (deleteFile), the call still answers success,
\* uploadFile with the saved record, and the record stays saved or deleted.
C15_CounterFailureSwallowed ==
    [][statsFailed' # statsFailed =>
          /\ response'.success
          /\ response'.op = "uploadFile" =>
                /\ Len(response'.files) = 1
                /\ response'.files[1]._id = response'.fileId
                /\ \E k \in 1..Len(files') : files'[k] = response'.files[1]
                /\ Len(files') = Len(files) + 1
          /\ response'.op = "deleteFile" =>
                /\ \A k \in 1..Len(files') : files'[k]._id # response'.fileId
                /\ Len(files') = Len(files) - 1]_vars

\* C15 witness: an upload and a delete have both answered success with
\* their counter updates swallowed.
C15_Witness ==
    /\ \E e \in statsFailed : e.op = "uploadFile"
    /\ \E e \in statsFailed : e.op = "deleteFile" /\ e.fileId = response.fileId
    /\ response.op = "deleteFile"
    /\ response.success

\* The file with this id, if the viewer may see it: their own or a public one
Viewable(fs, fileId, viewer) ==
    {k \in 1..Len(fs) :
        fs[k]._id = fileId /\ (fs[k].uploadedBy = viewer \/ fs[k].isPublic)}

\* C16: incrementViewCount adds one to the count and returns it only for a
\* file the viewer owns or a public file; for a missing id and for another
\* user's private file it fails, changes no viewCount, and gives one and the
\* same error and HTTP response in both cases.
C16_ViewCountOnlyWhenVisible ==
    [][(response' # response /\ response'.op = "incrementViewCount") =>
          LET seen == Viewable(files, response'.fileId, response'.caller)
          IN  IF seen # {}
              THEN /\ response'.success
                   /\ \A k \in 1..Len(files) :
                         /\ files'[k]._id = files[k]._id
                         /\ files'[k].viewCount =
                               files[k].viewCount + (IF k \in seen THEN 1 ELSE 0)
                         /\ k \in seen => response'.viewCount = files'[k].viewCount
              ELSE /\ ~response'.success
                   /\ files' = files
                   /\ response'.error = "File not found or access denied"
                   /\ HttpResponse(response') =
                         [status |-> 500, message |-> M_viewFailed]]_vars

\* C16 witness: a view of another user's private file has been refused.
C16_Witness ==
    /\ response.op = "incrementViewCount"
    /\ ~response.success
    /\ \E k \in 1..Len(files) :
          /\ files[k]._id = response.fileId
          /\ files[k].uploadedBy # response.caller
          /\ ~files[k].isPublic

\* The files with this id that the caller owns
Owned(fs, fileId, caller) ==
    {k \in 1..Len(fs) : fs[k]._id = fileId /\ fs[k].uploadedBy = caller}

\* C19 (as claimed): GET, PUT and DELETE on /files/:id answer 404 or 403 when
\* the file does not exist or the caller may not access it.
C19_MissingOrForbiddenIs404Or403 ==
    [][(/\ response' # response
        /\ \/ /\ response'.op = "getFileById"
              /\ Viewable(files, response'.fileId, response'.caller) = {}
           \/ /\ response'.op \in {"updateFile", "deleteFile"}
              /\ Owned(files, response'.fileId, response'.caller) = {})
       => HttpStatus(response') \in {403, 404}]_vars

\* C20 (as claimed): a PUT /files/:id by the owner with a patch of title,
\* description, tags, category or isPublic answers 200 and the stored record
\* then carries the patched values.
C20_OwnerPutStoresPatch ==
    [][(/\ response' # response
        /\ response'.op = "updateFile"
        /\ Owned(files, response'.fileId, response'.caller) # {})
       => /\ HttpStatus(response') = 200
          /\ \A k \in Owned(files, response'.fileId, response'.caller) :
                LET patch == response'.updates
                IN  /\ patch.title.set => files'[k].title = patch.title.v
                    /\ patch.category.set => files'[k].category = patch.category.v
                    /\ patch.isPublic.set =>
                          files'[k].isPublic = patch.isPublic.v.b]_vars

\* C17 (as claimed): every failed loginUser is answered with status 401 and
\* with the same message, whether the email is unknown, the account is
\* deactivated or the password is wrong.
C17_LoginFailuresAlike ==
    [][(response'.op = "loginUser" /\ ~response'.success) =>
          /\ LoginHttpResponse(response').status = 401
          /\ (response.op = "loginUser" /\ ~response.success) =>
                LoginHttpResponse(response') = LoginHttpResponse(response)]_vars

\* A registered user whose account has been deactivated
Deactivated(u) == accounts[u].registered /\ ~accounts[u].isActive

\* C18: a deactivated account stays deactivated under every operation, and
\* every loginUser, verifyToken and refreshToken for it fails.
C18_DeactivationIsFinal ==
    [][/\ \A u \in Users : Deactivated(u) => Deactivated(u)'
       /\ (/\ response' # response
           /\ response'.op \in {"loginUser", "verifyToken", "refreshToken"}
           /\ response'.caller \in Users
           /\ Deactivated(response'.caller))
          => ~response'.success]_vars

\* C18 witness: a valid token of a deactivated user has been refused.
C18_Witness ==
    /\ response.op = "verifyToken"
    /\ ~response.success
    /\ response.error = "Account is deactivated"
    /\ Deactivated(response.caller)

----------------------------------------------------------------------------
\* C21: an authenticated GET /files/stats is handled by
\* FileController.getFileStats and answers 200 with the caller's aggregates
\* grouped by fileType; it is never handled as the lookup of a file with the
\* id 'stats'.
C21_StatsRouteReachesStatsHandler ==
    response.path = <<"stats">> =>
        /\ response.op = "getFileStats"
        /\ HttpStatus(response) = 200
        /\ response.stats = getFileStats(response.caller)

----------------------------------------------------------------------------
\* p occurs in s
Occurs(p, s) ==
    \E i \in 0..(Len(s) - Len(p)) : SubSeq(s, i + 1, i + Len(p)) = p

\* The trimmed query occurs, whatever the case of the letters, in one of the
\* searched fields of f
TextHit(f, q) ==
    LET Has(s) == Occurs(toLowerCase(trim(q)), toLowerCase(s))
    IN  \/ Has(f.title) \/ Has(f.originalName)
        \/ (f.description # <<>> /\ Has(f.description))
        \/ \E i \in 1..Len(f.tags) : Has(f.tags[i])
        \/ \E i \in 1..Len(f.searchKeywords) : Has(f.searchKeywords[i])

\* The records of the store that pass the owner, fileType and category
\* filter of the answered request, in store order
FilterCandidates(resp) ==
    LET Pass(f) == /\ f.uploadedBy = resp.caller
                   /\ (resp.fileType # <<>> => f.fileType = resp.fileType)
                   /\ (resp.category # <<>> => f.category = resp.category)
    IN  SelectSeq(files, Pass)

\* Those of them the query text matches
SearchCandidates(resp) ==
    LET Hit(f) == TextHit(f, resp.q)
    IN  SelectSeq(FilterCandidates(resp), Hit)

\* The matching records, each at its place in a stable sort by descending
\* score taken at the clock reading of the request
RankedCandidates(resp) ==
    LET cand == SearchCandidates(resp)
        q == resp.q
        t == resp.at
        n == Len(cand)
        score(i) == relevanceScore(cand[i], q, t)
        rank(i) == 1 + Cardinality({j \in 1..n : score(j) > score(i)})
                     + Cardinality({j \in 1..(i - 1) : score(j) = score(i)})
    IN  [r \in 1..n |->
            LET i == CHOOSE k \in 1..n : rank(k) = r
            IN  cand[i] @@ [relevanceScore |-> score(i)]]

----------------------------------------------------------------------------
\* C23 (as claimed): in search mode totalFiles is the number of records that
\* pass the owner, fileType and category filter.
C23_TotalIsFilterCount ==
    [][(response' # response /\ response'.mode = "search") =>
          response'.pagination.totalFiles = Len(FilterCandidates(response'))]_vars

\* C23 (amended): in search mode totalFiles is the number of records that
\* pass the owner, fileType and category filter and that the query text
\* matches, whatever the page and the limit are.
C23_TotalIsMatchCount ==
    [][(response' # response /\ response'.mode = "search") =>
          response'.pagination.totalFiles = Len(SearchCandidates(response'))]_vars

\* C23 witness: a search on page 2 whose total is the one record the text
\* matches among the two that pass the filter.
C23_Witness ==
    /\ response.mode = "search"
    /\ response.q = T_my
    /\ response.page = 2
    /\ response.pagination.totalFiles = 1
    /\ Len(FilterCandidates(response)) = 2

----------------------------------------------------------------------------
\* C24: with the resource type 'auto', CloudinaryService.deleteFile makes at
\* most three delete attempts, as image, video, raw in this order, makes none
\* after the first that answers 'ok' or 'not found', and ends with success if
\* some attempt answered one of the two and with an error otherwise.
C24_AutoDeleteTriesInOrderAndStops ==
    (response.op = "cloudinaryDelete" /\ response.resourceType = "auto") =>
        LET a == response.attempts
            Ok(i) == a[i].outcome \in {"ok", "not found"}
        IN  /\ Len(a) \in 1..3
            /\ \A i \in 1..Len(a) : a[i].type = <<"image", "video", "raw">>[i]
            /\ \A i \in 1..(Len(a) - 1) : ~Ok(i)
            /\ Len(a) < 3 => Ok(Len(a))
            /\ response.success <=> \E i \in 1..Len(a) : Ok(i)
            /\ ~response.success => response.error # ""

\* C24 witness: the image attempt threw, the video attempt answered 'ok', no
\* raw attempt was made and the call succeeded.
C24_Witness ==
    /\ response.op = "cloudinaryDelete"
    /\ response.resourceType = "auto"
    /\ Len(response.attempts) = 2
    /\ response.attempts[1].outcome = "throw"
    /\ response.attempts[2].outcome = "ok"
    /\ response.success

----------------------------------------------------------------------------
\* C25: updateFile changes no field of the file record other than title,
\* description, tags, category, isPublic and searchKeywords (the model keeps
\* no updatedAt); other keys of the patch are ignored without error, and no
\* other file record and no user is changed.
C25_UpdateTouchesOnlyItsFields ==
    [][(response' # response /\ response'.op = "updateFile") =>
          /\ users' = users
          /\ objects' = objects
          /\ Len(files') = Len(files)
          /\ \A i \in 1..Len(files) :
                 /\ files[i]._id # response'.fileId => files'[i] = files[i]
                 /\ \A field \in DOMAIN files[i] \
                        {"title", "description", "tags", "category",
                         "isPublic", "searchKeywords"} :
                        files'[i][field] = files[i][field]
          /\ (\E k \in {"uploadedBy", "size", "viewCount"} :
                  response'.updates[k].set)
             => (response'.success
                   <=> \E i \in 1..Len(files) :
                          /\ files[i]._id = response'.fileId
                          /\ files[i].uploadedBy = response'.caller)]_vars

\* C25 witness: the owner u1 sent a patch with isPublic and with uploadedBy,
\* size and viewCount; the file is public and still u1's, with its size and
\* no view, next to another file.
C25_Witness ==
    /\ response.op = "updateFile"
    /\ response.success
    /\ response.caller = "u1"
    /\ response.updates.uploadedBy = Set("u2")
    /\ Len(files) = 2
    /\ \E i \in 1..Len(files) :
           /\ files[i]._id = response.fileId
           /\ files[i].isPublic
           /\ files[i].uploadedBy = "u1"
           /\ files[i].size < MaxSize + 1
           /\ files[i].viewCount = 0

----------------------------------------------------------------------------
\* C26: incrementViewCount requests on a file, interleaved in any way with
\* each other and with updateFile on that file, raise its viewCount by
\* exactly the number of them that succeeded: every successful request adds
\* one to the stored count, and no other step changes it.
C26_EveryViewCounted ==
    [][/\ Len(files') >= Len(files)
       /\ \A i \in 1..Len(files) :
              LET viewed == /\ response' # response
                            /\ response'.op = "incrementViewCount"
                            /\ response'.success
                            /\ response'.fileId = files[i]._id
              IN  files'[i].viewCount
                  = files[i].viewCount + (IF viewed THEN 1 ELSE 0)]_vars

\* C26 witness: an update that loaded the file before two views of it were
\* counted has saved its title after them, and the stored count is two.
C26_Witness ==
    /\ response.op = "updateFile"
    /\ response.success
    /\ response.files[1].viewCount = 0
    /\ response.files[1].title = T_myCat
    /\ \E i \in 1..Len(files) :
           /\ files[i]._id = response.fileId
           /\ files[i].title = T_myCat
           /\ files[i].viewCount = 2

----------------------------------------------------------------------------
\* C27: in every reachable state, whatever the interleaving of uploads and
\* deletes and whichever counter updates fail, every user's totalFiles and
\* storageUsed are at least zero.
C27_CountersNeverNegative ==
    \A u \in DOMAIN users :
        users[u].totalFiles >= 0 /\ users[u].storageUsed >= 0

\* C27 witness: the counter update of an upload failed, so the counters were
\* zero when the delete of that file decremented them.
C27_Witness ==
    /\ files = <<>>
    /\ \E e \in statsFailed : e.op = "uploadFile" /\ e.fileId = response.fileId
    /\ \A e \in statsFailed : e.op = "uploadFile"
    /\ response.op = "deleteFile"
    /\ response.success
    /\ \A slot \in Slots : inflight[slot].pc = "idle"
    /\ users["u1"].totalFiles = 0
    /\ users["u1"].storageUsed = 0

\* C29: of two deleteFile requests for one file of their caller that are in
\* flight together, only the one that removed the record decrements the
\* owner's counters and reports success: a request whose
\* File.findByIdAndDelete found the record gone changes no counter and does
\* not report success.
C29_OnlyTheRemovingDeleteCounts ==
    [][\A slot \in Slots :
          (/\ inflight[slot].op = "deleteFile"
           /\ inflight[slot].pc = "saveUser"
           /\ inflight[slot].doc = <<>>
           /\ inflight'[slot].pc = "idle")
          => (users' = users /\ ~response'.success)]_vars

----------------------------------------------------------------------------
\* C28: every stored file record has at most ten tags, after any upload or
\* update made over HTTP.
C28_AtMostTenTags ==
    \A i \in 1..Len(files) : Len(files[i].tags) <= TagLimit

----------------------------------------------------------------------------
\* The number of records of the store that a listing of userId matches
ListingCount(userId) ==
    Cardinality({k \in 1..Len(files) : files[k].uploadedBy = userId})

============================================================================
